---- MODULE Spec2Model ----
(***************************************************************************)
(* Order ingestion and real-time fan-out of robot0011/order-system.        *)
(*                                                                         *)
(* Order side: handler/order_handler.go (CreateOrder, CreatePublicOrder)   *)
(* against a PostgreSQL store (database/database.go) whose behaviour is    *)
(* READ COMMITTED with row locks taken by SELECT ... FOR UPDATE.           *)
(* Hub side: the orderHub goroutine, publish, HandleOrderSocket and the    *)
(* two pumps of a wsClient.                                                *)
(***************************************************************************)
EXTENDS Integers, Sequences, FiniteSets, TLC

(***************************************************************************)
(* Bounds of the model.                                                    *)
(***************************************************************************)
\* number of concurrent order requests (one handler invocation each)
NumCalls == 2
\* largest initial MenuItem.Quantity
MaxStock == 2
\* largest "quantity" a request line carries (the smallest is 0)
MaxOrderQty == 2
\* largest number of order_items in one request
MaxLines == 2
\* store statements that may fail in one behaviour
MaxStoreFailures == 1
\* capacity of the hub's broadcast channel (make(chan OrderEvent, 32)), scaled
BroadcastCap == 2
\* capacity of a session's send channel (make(chan []byte, 32)), scaled
SendCap == 2
\* number of websocket connections
NumSessions == 2
\* events the handlers publish in one behaviour of the hub specification
MaxEvents == 3
\* events published in one behaviour of the entitlement specification
MaxEntitleEvents == 2
\* events of the delivery specification
MaxDeliveryEvents == 4
\* minutes the clock runs in one behaviour
MaxTime == 15
\* minutes the clock runs in one behaviour of the routes specification
MaxRouteTime == 1
\* limiter decisions in one behaviour
MaxChecks == 6
\* minutes the clock runs and login requests in one behaviour of the login
\* specification
MaxLoginTime == 20
MaxLogins == 8
\* limiter decisions in one behaviour of the rate limiter specification
MaxRateChecks == 4
\* restaurants rows and tables rows the store holds at most
MaxRestaurants == 4
MaxTables == 4

(***************************************************************************)
(* Rows the store holds from the start: three restaurants, one table each, *)
(* menu items 1 and 2 of restaurant 1 and menu item 3 of restaurant 2.     *)
(***************************************************************************)
Restaurants == {1, 2, 3}
Tables == {1, 2, 3}
Items == {1, 2, 3}
Users == {"u1", "u2", "u3"}
Calls == 1 .. NumCalls
NoCall == 0
Sessions == 1 .. NumSessions
\* the session that connects in the feed and delivery specifications
Listeners == {1}

\* models.Restaurant.UserID, as the username of the owner; u3 owns nothing
RestaurantOwner == (1 :> "u1") @@ (2 :> "u2") @@ (3 :> "u2")
\* models.Table.RestaurantID
TableRestaurant == (1 :> 1) @@ (2 :> 2) @@ (3 :> 3)
\* models.MenuItem.RestaurantID
ItemRestaurant == (1 :> 1) @@ (2 :> 1) @@ (3 :> 2)
\* models.MenuItem.Price (whole currency units)
ItemPrice == (1 :> 2) @@ (2 :> 3) @@ (3 :> 5)

\* one entry of the order_items of a request body: menu_item_id and quantity
RequestLines == [MenuItemID : Items, Quantity : 0 .. MaxOrderQty]
\* A request: entry point, caller, :restaurant_id, table_id and order_items.
\* The body is an input of the handler; the model reveals its order_items one
\* entry at a time, when the handler's loop reaches the entry (StartBodies are
\* the bodies as they stand when the handler starts, MoreLines the ways the
\* body goes on).  The handlers read the entries in order and once, so this
\* reaches the states that drawing the whole body in advance reaches.
StartBodies == {<<>>} \cup {<<e>> : e \in RequestLines}
Requests ==
    [kind : {"public", "auth"}, username : {"u1"}, RestaurantID : {1},
     TableID : {1, 2}, OrderItems : StartBodies]
MoreLines(body) ==
    {body} \cup (IF Len(body) < MaxLines
                 THEN {Append(body, e) : e \in RequestLines}
                 ELSE {})

VARIABLES
    menuItems,      \* committed menu_items rows: id -> [RestaurantID, Price, Quantity]
    initialQuantity,\* the Quantity every menu item started with (never written)
    orders,         \* committed orders rows
    orderItems,     \* committed order_items rows
    nextOrderID,    \* the orders id sequence
    storeFailures,  \* store statements that have failed so far
    pc,             \* per call: position in the handler
    request,        \* per call: the parsed request
    idx,            \* per call: index of the next order_items entry
    totalAmount,    \* per call: the handler's totalAmount
    lineItems,      \* per call: the handler's orderItems slice
    txItems,        \* per call: menu_items rows locked and saved in the open transaction
    createdOrder,   \* per call: the handler's createdOrder / order, once inserted
    result,         \* per call: the HTTP outcome
    locals,         \* per call: c.Locals("username"), set by ProtectRoute
    restaurants,    \* restaurants rows by id: the owner and whether the row is deleted
    tables,         \* tables rows by id: the restaurant of the table
    now,            \* the wall clock, in minutes since the process started
    requests,       \* RateLimiter.requests: per key, Count and LastTime
    limit,          \* the maxRequests and window the rate limiter is called with
    checks,         \* every limiter decision so far: key, route, time, outcome (history)
    attempts,       \* BruteForceProtector.attempts: per username, the AttemptRecord
    unitPrices,     \* per call: the menuItem.Price read for each line so far
    broadcast,      \* orderHub.broadcast: the buffered channel of events
    published,      \* every event sent on broadcast so far, in the order of the sends
    clients,        \* orderHub.clients: the registered sessions
    restaurantIDs,  \* per session: wsClient.restaurantIDs
    send,           \* per session: the content of the channel wsClient.send
    sendClosed,     \* per session: whether wsClient.send has been closed
    closePanics,    \* whether a close of a closed channel or a send on one happened
    dropped,        \* the sessions the fan-out removed on a full channel (history)
    sessPc,         \* per session: position of HandleOrderSocket
    writerPc,       \* per session: position of writePump
    connClosed,     \* per session: whether c.Close() has run
    written         \* per session: the messages written to the transport

orderVars ==
    <<menuItems, initialQuantity, orders, orderItems, nextOrderID, storeFailures,
      pc, request, idx, totalAmount, lineItems, txItems, createdOrder, result,
      locals, unitPrices, restaurants, tables, now, requests, limit, checks,
      attempts>>
hubVars ==
    <<clients, restaurantIDs, send, sendClosed, closePanics, dropped, sessPc,
      writerPc, connClosed, written>>
hubSide == <<broadcast, published, hubVars>>
directory == <<restaurants, tables>>
limiterVars == <<now, requests, limit, checks, attempts>>
vars == <<orderVars, broadcast, published, hubVars>>

NoOrder == [ID |-> 0]
NoRequest == [kind |-> "none"]
NoUser == ""
EmptyTx == [m \in {} |-> 0]
\* make(map[string]*RequestRecord), make(map[string]*AttemptRecord)
NoRecords == [k \in {} |-> 0]
\* no rate limiter call is part of the behaviour
NoLimit == [maxRequests |-> 0, window |-> 0]

\* NewRateLimiter, NewBruteForceProtector at process start
InitLimiter ==
    /\ now = 0
    /\ requests = NoRecords
    /\ limit = NoLimit
    /\ checks = <<>>
    /\ attempts = NoRecords

(***************************************************************************)
(* Pure helpers of the handlers.                                           *)
(***************************************************************************)
\* a handler that takes the quantity as it is sent
QuantityAsSent(q) == q

\* quantity := item.Quantity; if quantity <= 0 { quantity = 1 }
NormalizeQuantity(q) == IF q <= 0 THEN 1 ELSE q

\* First(&menuItem) with "id = ? AND restaurant_id = ?"
MenuItemFound(m, rid) == m \in DOMAIN menuItems /\ menuItems[m].RestaurantID = rid

\* a table lookup by id alone
TableFoundAny(t, rid) == t \in DOMAIN tables

\* First(&table) with "id = ? AND restaurant_id = ?"
TableFound(t, rid) == t \in DOMAIN tables /\ tables[t] = rid

\* without FOR UPDATE no transaction holds a row lock
LockHolderNone(m) == NoCall

\* the call whose open transaction holds the row lock of menu item m
LockHolder(m) ==
    IF \E c \in Calls : m \in DOMAIN txItems[c]
    THEN CHOOSE c \in Calls : m \in DOMAIN txItems[c]
    ELSE NoCall

\* the row a statement of call c's transaction reads: its own write, else the
\* a read that does not see the rows the transaction itself has saved
TxRowCommitted(c, m) == menuItems[m]

\* committed row
TxRow(c, m) == IF m \in DOMAIN txItems[c] THEN txItems[c][m] ELSE menuItems[m]

\* the entry of the request that call c handles next
CurrentLine(c) == request[c].OrderItems[idx[c]]

\* call c waits for the row lock that call d holds
WaitsFor(c, d) ==
    /\ c # d
    /\ pc[c] = "line"
    /\ request[c].kind = "public"
    /\ idx[c] <= Len(request[c].OrderItems)
    /\ MenuItemFound(CurrentLine(c).MenuItemID, request[c].RestaurantID)
    /\ LockHolder(CurrentLine(c).MenuItemID) = d

Init ==
    /\ menuItems \in {[m \in Items |-> [RestaurantID |-> ItemRestaurant[m],
                                        Price |-> ItemPrice[m],
                                        Quantity |-> q[m]]] :
                        q \in {f \in [Items -> 0 .. MaxStock] : f[3] = MaxStock}}
    /\ initialQuantity = [m \in Items |-> menuItems[m].Quantity]
    /\ orders = {}
    /\ orderItems = {}
    /\ nextOrderID = 1
    /\ storeFailures = 0
    /\ pc = [c \in Calls |-> "idle"]
    /\ request = [c \in Calls |-> NoRequest]
    /\ idx = [c \in Calls |-> 1]
    /\ totalAmount = [c \in Calls |-> 0]
    /\ lineItems = [c \in Calls |-> <<>>]
    /\ txItems = [c \in Calls |-> EmptyTx]
    /\ createdOrder = [c \in Calls |-> NoOrder]
    /\ result = [c \in Calls |-> "none"]
    /\ locals = [c \in Calls |-> NoUser]
    /\ restaurants = [r \in DOMAIN RestaurantOwner |->
                        [UserID |-> RestaurantOwner[r], Deleted |-> FALSE]]
    /\ tables = TableRestaurant
    /\ InitLimiter
    /\ unitPrices = [c \in Calls |-> <<>>]
    /\ broadcast = <<>>
    /\ published = <<>>
    /\ clients = {}
    /\ restaurantIDs = [s \in Sessions |-> {}]
    /\ send = [s \in Sessions |-> <<>>]
    /\ sendClosed = [s \in Sessions |-> FALSE]
    /\ closePanics = FALSE
    /\ dropped = {}
    /\ sessPc = [s \in Sessions |-> "new"]
    /\ writerPc = [s \in Sessions |-> "none"]
    /\ connClosed = [s \in Sessions |-> FALSE]
    /\ written = [s \in Sessions |-> <<>>]

\* a handler that saves outside a transaction: leaving with an error keeps
\* the rows it has saved
ReturnErrorNoRollback(c, res) ==
    /\ pc' = [pc EXCEPT ![c] = "done"]
    /\ result' = [result EXCEPT ![c] = res]
    /\ txItems' = [txItems EXCEPT ![c] = EmptyTx]
    /\ createdOrder' = [createdOrder EXCEPT ![c] = NoOrder]
    /\ idx' = [idx EXCEPT ![c] = 1]
    /\ totalAmount' = [totalAmount EXCEPT ![c] = 0]
    /\ lineItems' = [lineItems EXCEPT ![c] = <<>>]
    /\ unitPrices' = [unitPrices EXCEPT ![c] = <<>>]
    /\ menuItems' = [m \in Items |-> TxRow(c, m)]
    /\ UNCHANGED <<orders, orderItems>>

(***************************************************************************)
(* Leaving a handler with an error response.  Inside                       *)
(* database.DB.Transaction the returned error rolls the transaction back:  *)
(* the saved rows and the inserted order are dropped and the row locks are *)
(* released.  The handler's local variables end with the call.             *)
(***************************************************************************)
ReturnError(c, res) ==
    /\ pc' = [pc EXCEPT ![c] = "done"]
    /\ result' = [result EXCEPT ![c] = res]
    /\ txItems' = [txItems EXCEPT ![c] = EmptyTx]
    /\ createdOrder' = [createdOrder EXCEPT ![c] = NoOrder]
    /\ idx' = [idx EXCEPT ![c] = 1]
    /\ totalAmount' = [totalAmount EXCEPT ![c] = 0]
    /\ lineItems' = [lineItems EXCEPT ![c] = <<>>]
    /\ unitPrices' = [unitPrices EXCEPT ![c] = <<>>]
    /\ UNCHANGED <<menuItems, orders, orderItems>>

\* a statement of the store fails (connection lost, statement timeout, ...)
StoreFails ==
    /\ storeFailures < MaxStoreFailures
    /\ storeFailures' = storeFailures + 1

\* utils.MapInternalStatusToFrontend
MapInternalStatusToFrontend(status) ==
    CASE status \in {"pending", "confirmed", "preparing", "ready"} -> "active"
      [] status = "delivered" -> "delivered"
      [] status = "completed" -> "paid"
      [] OTHER -> status

\* buildOrderResponse: the order snapshot with the owning restaurant's id
BuildOrderResponse(order, rid) ==
    [ID |-> order.ID, TableID |-> order.TableID,
     Status |-> MapInternalStatusToFrontend(order.Status),
     TotalAmount |-> order.TotalAmount, OrderItems |-> order.OrderItems,
     RestaurantID |-> rid]

\* the models.Order a handler builds from its loop variables
NewOrder(c) ==
    [ID |-> nextOrderID, TableID |-> request[c].TableID, Status |-> "pending",
     TotalAmount |-> totalAmount[c], OrderItems |-> lineItems[c]]

\* the orders row and the order_items rows of an inserted order
OrderRow(o) ==
    [ID |-> o.ID, TableID |-> o.TableID, Status |-> o.Status,
     TotalAmount |-> o.TotalAmount]
OrderItemRows(o) ==
    {[OrderID |-> o.ID, Pos |-> i, MenuItemID |-> o.OrderItems[i].MenuItemID,
      Quantity |-> o.OrderItems[i].Quantity] : i \in 1 .. Len(o.OrderItems)}

\* the loop moves to the next entry of request.OrderItems
NextEntry(c) ==
    /\ idx' = [idx EXCEPT ![c] = @ + 1]
    /\ \E body \in MoreLines(request[c].OrderItems) :
         request' = [request EXCEPT ![c].OrderItems = body]

(***************************************************************************)
(* CreatePublicOrder                                                       *)
(***************************************************************************)
\* database.DB.First(&restaurant, restaurantID): the row exists and is not
\* deleted (gorm.Model rows are deleted by setting deleted_at)
RestaurantExists(rid) == rid \in DOMAIN restaurants /\ ~restaurants[rid].Deleted

\* restaurant lookup, BodyParser, table lookup, then the transaction opens
CreatePublicOrderBegin(c) ==
    /\ pc[c] = "idle"
    /\ \E r \in Requests :
        /\ r.kind = "public"
        /\ request' = [request EXCEPT ![c] = r]
        /\ IF ~RestaurantExists(r.RestaurantID)
           THEN ReturnError(c, "restaurant_not_found")
           ELSE IF ~TableFound(r.TableID, r.RestaurantID)
           THEN ReturnError(c, "table_not_found")
           ELSE /\ pc' = [pc EXCEPT ![c] = "line"]
                /\ UNCHANGED <<result, txItems, createdOrder, idx, totalAmount,
                               lineItems, unitPrices, menuItems, orders, orderItems>>
    /\ UNCHANGED <<initialQuantity, nextOrderID, storeFailures, locals, hubSide, directory, limiterVars>>

\* a total that forgets the quantity of the line
LineTotalUnit(price, quantity) == price

\* totalAmount += menuItem.Price * float64(quantity)
LineTotal(price, quantity) == price * quantity

\* menuItem.Quantity -= quantity; if menuItem.Quantity < 0 { menuItem.Quantity = 0 }
Decrement(stock, quantity) ==
    IF stock - quantity < 0 THEN 0 ELSE stock - quantity

\* the comparison with <= in place of <
InsufficientOrEqual(stock, quantity) == stock <= quantity

\* if menuItem.Quantity < quantity { return "Insufficient quantity ..." }
Insufficient(stock, quantity) == stock < quantity

\* tx.Save(&menuItem): the row as the open transaction of call c holds it
SaveRow(c, m, row) ==
    [k \in DOMAIN txItems[c] \cup {m} |-> IF k = m THEN row ELSE txItems[c][k]]

\* one turn of the loop over request.OrderItems: SELECT ... FOR UPDATE (which
\* waits while another transaction holds the row lock), the stock check, the
\* decrement and tx.Save
ReserveLine(c) ==
    /\ pc[c] = "line"
    /\ request[c].kind = "public"
    /\ idx[c] <= Len(request[c].OrderItems)
    /\ LET line == CurrentLine(c)
           m == line.MenuItemID
           quantity == NormalizeQuantity(line.Quantity)
       IN  IF ~MenuItemFound(m, request[c].RestaurantID)
           THEN /\ ReturnError(c, "item_not_found")
                /\ UNCHANGED <<request, storeFailures>>
           ELSE /\ LockHolder(m) \in {NoCall, c}
                /\ LET row == TxRow(c, m)
                   IN  IF Insufficient(row.Quantity, quantity)
                       THEN /\ ReturnError(c, "insufficient")
                            /\ UNCHANGED <<request, storeFailures>>
                       ELSE \/ /\ txItems' =
                                    [txItems EXCEPT ![c] =
                                       SaveRow(c, m,
                                               [row EXCEPT !.Quantity =
                                                  Decrement(row.Quantity, quantity)])]
                               /\ totalAmount' =
                                    [totalAmount EXCEPT ![c] = @ + LineTotal(row.Price, quantity)]
                               /\ unitPrices' = [unitPrices EXCEPT ![c] = Append(@, row.Price)]
                               /\ lineItems' =
                                    [lineItems EXCEPT ![c] =
                                       Append(@, [MenuItemID |-> m, Quantity |-> quantity])]
                               /\ NextEntry(c)
                               /\ UNCHANGED <<pc, result, createdOrder, storeFailures,
                                              menuItems, orders, orderItems>>
                            \/ /\ StoreFails
                               /\ ReturnError(c, "store_error")
                               /\ UNCHANGED request
    /\ UNCHANGED <<initialQuantity, nextOrderID, locals, hubSide, directory, limiterVars>>

\* the calls that the calls of `seen` wait for, directly or one after another
RECURSIVE WaitChain(_, _)
WaitChain(seen, n) ==
    IF n = 0 THEN seen
    ELSE WaitChain(seen \cup {d \in Calls : \E b \in seen : WaitsFor(b, d)}, n - 1)

\* a store without deadlock detection
NeverDeadlocked(c) == FALSE

\* call c waits for a row lock in a cycle of waiting calls
Deadlocked(c) ==
    \E d \in Calls : WaitsFor(c, d) /\ c \in WaitChain({d}, NumCalls)

\* PostgreSQL ends a lock-wait cycle by failing the statement of one of the
\* waiting transactions; the handler turns every error of First into
\* "Menu item not found"
LockDeadlock(c) ==
    /\ Deadlocked(c)
    /\ ReturnError(c, "item_not_found")
    /\ UNCHANGED <<initialQuantity, nextOrderID, storeFailures, request, locals,
                   hubSide, directory, limiterVars>>

\* after the loop: tx.Create(&createdOrder) and the Preload of its items
PublicCreate(c) ==
    /\ pc[c] = "line"
    /\ request[c].kind = "public"
    /\ idx[c] > Len(request[c].OrderItems)
    /\ nextOrderID' = nextOrderID + 1
    /\ \/ /\ createdOrder' = [createdOrder EXCEPT ![c] = NewOrder(c)]
          /\ pc' = [pc EXCEPT ![c] = "commit"]
          /\ UNCHANGED <<result, txItems, storeFailures, idx, totalAmount, lineItems,
                         unitPrices, menuItems, orders, orderItems>>
       \/ /\ StoreFails
          /\ ReturnError(c, "store_error")
    /\ UNCHANGED <<initialQuantity, request, locals, hubSide, directory, limiterVars>>

\* the rows of menu_items once the transaction of call c has committed
CommittedItems(c) ==
    [m \in Items |-> IF m \in DOMAIN txItems[c] THEN txItems[c][m] ELSE menuItems[m]]

\* the closure returned nil: COMMIT makes the saved rows and the order visible
\* and releases the row locks; a failed COMMIT rolls back
PublicCommit(c) ==
    /\ pc[c] = "commit"
    /\ \/ /\ menuItems' = CommittedItems(c)
          /\ orders' = orders \cup {OrderRow(createdOrder[c])}
          /\ orderItems' = orderItems \cup OrderItemRows(createdOrder[c])
          /\ txItems' = [txItems EXCEPT ![c] = EmptyTx]
          /\ result' = [result EXCEPT ![c] = "created"]
          /\ pc' = [pc EXCEPT ![c] = "publish"]
          /\ UNCHANGED <<createdOrder, storeFailures, idx, totalAmount, lineItems,
                         unitPrices>>
       \/ /\ StoreFails
          /\ ReturnError(c, "store_error")
    /\ UNCHANGED <<initialQuantity, nextOrderID, request, locals, hubSide, directory, limiterVars>>

(***************************************************************************)
(* CreateOrder (authenticated)                                             *)
(***************************************************************************)
\* verifyRestaurantOwnership: the restaurant with this id owned by the user
RestaurantOwned(username, rid) ==
    /\ rid \in DOMAIN restaurants
    /\ ~restaurants[rid].Deleted
    /\ restaurants[rid].UserID = username

\* verifyRestaurantOwnership, BodyParser, table lookup
CreateOrderBegin(c) ==
    /\ pc[c] = "idle"
    /\ \E r \in Requests :
        /\ r.kind = "auth"
        /\ request' = [request EXCEPT ![c] = r]
        /\ IF ~RestaurantOwned(r.username, r.RestaurantID)
           THEN ReturnError(c, "restaurant_not_found")
           ELSE IF ~TableFound(r.TableID, r.RestaurantID)
           THEN ReturnError(c, "table_not_found")
           ELSE /\ pc' = [pc EXCEPT ![c] = "line"]
                /\ UNCHANGED <<result, txItems, createdOrder, idx, totalAmount,
                               lineItems, unitPrices, menuItems, orders, orderItems>>
    /\ UNCHANGED <<initialQuantity, nextOrderID, storeFailures, locals, hubSide, directory, limiterVars>>

\* one turn of the loop of CreateOrder: a plain read of the menu item, the
\* quantity normalised, the total and the slice extended; no stock check and
\* no write
PriceLine(c) ==
    /\ pc[c] = "line"
    /\ request[c].kind = "auth"
    /\ idx[c] <= Len(request[c].OrderItems)
    /\ LET line == CurrentLine(c)
           m == line.MenuItemID
           quantity == NormalizeQuantity(line.Quantity)
       IN  IF ~MenuItemFound(m, request[c].RestaurantID)
           THEN /\ ReturnError(c, "item_not_found")
                /\ UNCHANGED request
           ELSE /\ totalAmount' =
                     [totalAmount EXCEPT ![c] = @ + LineTotal(menuItems[m].Price, quantity)]
                /\ unitPrices' = [unitPrices EXCEPT ![c] = Append(@, menuItems[m].Price)]
                /\ lineItems' =
                     [lineItems EXCEPT ![c] =
                        Append(@, [MenuItemID |-> m, Quantity |-> quantity])]
                /\ NextEntry(c)
                /\ UNCHANGED <<pc, result, txItems, createdOrder, menuItems, orders,
                               orderItems>>
    /\ UNCHANGED <<initialQuantity, nextOrderID, storeFailures, locals, hubSide, directory, limiterVars>>

\* database.DB.Create(&order): the order and its items, in the statement's own
\* transaction
AuthCreate(c) ==
    /\ pc[c] = "line"
    /\ request[c].kind = "auth"
    /\ idx[c] > Len(request[c].OrderItems)
    /\ nextOrderID' = nextOrderID + 1
    /\ \/ /\ orders' = orders \cup {OrderRow(NewOrder(c))}
          /\ orderItems' = orderItems \cup OrderItemRows(NewOrder(c))
          /\ createdOrder' = [createdOrder EXCEPT ![c] = NewOrder(c)]
          /\ result' = [result EXCEPT ![c] = "created"]
          /\ pc' = [pc EXCEPT ![c] = "publish"]
          /\ UNCHANGED <<txItems, storeFailures, idx, totalAmount, lineItems,
                         unitPrices, menuItems>>
       \/ /\ StoreFails
          /\ ReturnError(c, "store_error")
    /\ UNCHANGED <<initialQuantity, request, locals, hubSide, directory, limiterVars>>

(***************************************************************************)
(* orderHub.publish and the hub's receive from the broadcast channel       *)
(***************************************************************************)
\* the OrderEvent a handler hands to publish
EventOf(c) ==
    [Type |-> IF request[c].kind = "status" THEN "order_updated" ELSE "order_created",
     Order |-> BuildOrderResponse(createdOrder[c], request[c].RestaurantID)]

\* a handler that hands its event over and stays where it is
PublishAgain(c) ==
    /\ pc[c] = "publish"
    /\ Len(broadcast) < BroadcastCap
    /\ Len(published) < MaxEvents
    /\ broadcast' = Append(broadcast, EventOf(c))
    /\ published' = Append(published, EventOf(c))
    /\ UNCHANGED <<orderVars, hubVars>>

\* h.broadcast <- OrderEvent{...}: a send on a buffered channel, which waits
\* while the buffer is full; then the handler answers and ends
Publish(c) ==
    /\ pc[c] = "publish"
    /\ Len(broadcast) < BroadcastCap
    /\ broadcast' = Append(broadcast, EventOf(c))
    /\ published' = Append(published, EventOf(c))
    /\ pc' = [pc EXCEPT ![c] = "done"]
    /\ idx' = [idx EXCEPT ![c] = 1]
    /\ totalAmount' = [totalAmount EXCEPT ![c] = 0]
    /\ lineItems' = [lineItems EXCEPT ![c] = <<>>]
    /\ createdOrder' = [createdOrder EXCEPT ![c] = NoOrder]
    /\ unitPrices' = [unitPrices EXCEPT ![c] = <<>>]
    /\ UNCHANGED <<menuItems, initialQuantity, orders, orderItems, nextOrderID,
                   storeFailures, request, txItems, result, locals, hubVars, directory, limiterVars>>

\* a filter that looks only at whether the entitlement set is empty
EntitledToAll(s, event) == restaurantIDs[s] # {}

\* the filter of the fan-out loop: the session has a non-empty entitlement set
\* that holds the event's restaurant
Entitled(s, event) ==
    /\ restaurantIDs[s] # {}
    /\ event.Order.RestaurantID \in restaurantIDs[s]

\* a send that never takes the default case
HasRoomAlways(s) == TRUE

\* select { case client.send <- payload: ... } finds room in the channel
HasRoom(s) == Len(send[s]) < SendCap

\* a queue that hands out its newest payload first
EnqueueFront(s, payload) == <<payload>> \o send[s]

\* case client.send <- payload: the payload joins the end of the channel
Enqueue(s, payload) == Append(send[s], payload)

\* the registered clients the loop sends the event to
Targets(event) == {s \in clients : Entitled(s, event)}

\* default: the clients whose channel is full
Overflowed(event) == {s \in Targets(event) : ~HasRoom(s)}

\* the default case without delete(h.clients, client)
ClientsKept(event) == clients

\* delete(h.clients, client) in the default case
ClientsAfterFanOut(event) == clients \ Overflowed(event)

\* a fan-out that sends with a plain channel send: the loop waits until
\* every entitled client has room in its queue
HubBroadcastBlocking ==
    /\ broadcast # <<>>
    /\ LET event == Head(broadcast)
       IN  /\ \A s \in Targets(event) : HasRoom(s)
           /\ broadcast' = Tail(broadcast)
           /\ send' = [s \in Sessions |->
                         IF s \in Targets(event) THEN Enqueue(s, event) ELSE send[s]]
    /\ UNCHANGED <<orderVars, published, clients, sendClosed, dropped, closePanics,
                   restaurantIDs, sessPc, writerPc, connClosed, written>>

\* case event := <-h.broadcast: the loop over h.clients, one non-blocking send
\* per entitled client; a client whose channel is full is deleted and its
\* channel closed
HubBroadcast ==
    /\ broadcast # <<>>
    /\ LET event == Head(broadcast)
       IN  /\ broadcast' = Tail(broadcast)
           /\ send' = [s \in Sessions |->
                         IF s \in Targets(event) /\ HasRoom(s)
                         THEN Enqueue(s, event) ELSE send[s]]
           /\ clients' = ClientsAfterFanOut(event)
           /\ sendClosed' = [s \in Sessions |-> sendClosed[s] \/ s \in Overflowed(event)]
           /\ dropped' = dropped \cup Overflowed(event)
           /\ closePanics' =
                (closePanics \/ \E s \in Targets(event) : sendClosed[s])
    /\ UNCHANGED <<orderVars, published, restaurantIDs, sessPc, writerPc,
                   connClosed, written>>

(***************************************************************************)
(* HandleOrderSocket, the hub's register and unregister cases, the pumps   *)
(***************************************************************************)
\* fetchRestaurantIDs: the ids of the restaurants the user owns
FetchRestaurantIDs(username) ==
    {r \in DOMAIN restaurants : RestaurantOwned(username, r)}

\* the token is valid: fetchRestaurantIDs, newWSClient, and the session goes
\* on to send itself on the register channel
Connect(s) ==
    /\ sessPc[s] = "new"
    /\ \E username \in Users :
         restaurantIDs' = [restaurantIDs EXCEPT ![s] = FetchRestaurantIDs(username)]
    /\ sessPc' = [sessPc EXCEPT ![s] = "register"]
    /\ UNCHANGED <<orderVars, broadcast, published, clients, send, sendClosed,
                   closePanics, dropped, writerPc, connClosed, written>>

\* a registration that computes the entitlement set again
HubRegisterRefetch(s) ==
    /\ sessPc[s] = "register"
    /\ clients' = clients \cup {s}
    /\ sessPc' = [sessPc EXCEPT ![s] = "running"]
    /\ writerPc' = [writerPc EXCEPT ![s] = "running"]
    /\ \E username \in Users :
         restaurantIDs' = [restaurantIDs EXCEPT ![s] = FetchRestaurantIDs(username)]
    /\ UNCHANGED <<orderVars, broadcast, published, send, sendClosed,
                   closePanics, dropped, connClosed, written>>

\* case client := <-h.register, met by globalOrderHub.register <- client;
\* HandleOrderSocket then starts writePump and enters readPump
HubRegister(s) ==
    /\ sessPc[s] = "register"
    /\ clients' = clients \cup {s}
    /\ sessPc' = [sessPc EXCEPT ![s] = "running"]
    /\ writerPc' = [writerPc EXCEPT ![s] = "running"]
    /\ UNCHANGED <<orderVars, broadcast, published, restaurantIDs, send, sendClosed,
                   closePanics, dropped, connClosed, written>>

\* readPump: ReadMessage returns an error (the peer closed, or the read
\* failed) and the deferred function starts
ReadPumpEnds(s) ==
    /\ sessPc[s] = "running"
    /\ sessPc' = [sessPc EXCEPT ![s] = "unregister"]
    /\ UNCHANGED <<orderVars, broadcast, published, clients, restaurantIDs, send,
                   sendClosed, closePanics, dropped, writerPc, connClosed, written>>

\* the hub's fields that the unregister case reads and writes
HubState == [clients |-> clients, sendClosed |-> sendClosed, closePanics |-> closePanics]

\* the unregister case without its membership test
IsRegisteredAlways(h, s) == TRUE

\* if _, ok := h.clients[client]; ok
IsRegistered(h, s) == s \in h.clients

\* the unregister case applied to hub state h and client s:
\* if registered { delete(h.clients, client); close(client.send) }
Unregistered(h, s) ==
    IF IsRegistered(h, s)
    THEN [clients |-> h.clients \ {s},
          sendClosed |-> [h.sendClosed EXCEPT ![s] = TRUE],
          closePanics |-> (h.closePanics \/ h.sendClosed[s])]
    ELSE h

\* case client := <-h.unregister, met by the deferred
\* globalOrderHub.unregister <- client, after which the session runs c.Close()
HubUnregister(s) ==
    /\ sessPc[s] = "unregister"
    /\ clients' = Unregistered(HubState, s).clients
    /\ sendClosed' = Unregistered(HubState, s).sendClosed
    /\ closePanics' = Unregistered(HubState, s).closePanics
    /\ sessPc' = [sessPc EXCEPT ![s] = "closed"]
    /\ connClosed' = [connClosed EXCEPT ![s] = TRUE]
    /\ UNCHANGED <<orderVars, broadcast, published, restaurantIDs, send, dropped,
                   writerPc, written>>

\* writePump: one message received from c.send and written to the connection;
\* a failed write (always so once the connection is closed) ends the loop
WritePump(s) ==
    /\ writerPc[s] = "running"
    /\ send[s] # <<>>
    /\ send' = [send EXCEPT ![s] = Tail(@)]
    /\ \/ /\ ~connClosed[s]
          /\ written' = [written EXCEPT ![s] = Append(@, Head(send[s]))]
          /\ UNCHANGED writerPc
       \/ /\ writerPc' = [writerPc EXCEPT ![s] = "stopped"]
          /\ UNCHANGED written
    /\ UNCHANGED <<orderVars, broadcast, published, clients, restaurantIDs,
                   sendClosed, closePanics, dropped, sessPc, connClosed>>

\* writePump: range over a closed and drained channel ends
WritePumpExit(s) ==
    /\ writerPc[s] = "running"
    /\ send[s] = <<>>
    /\ sendClosed[s]
    /\ writerPc' = [writerPc EXCEPT ![s] = "stopped"]
    /\ UNCHANGED <<orderVars, broadcast, published, clients, restaurantIDs, send,
                   sendClosed, closePanics, dropped, sessPc, connClosed, written>>

\* CreateOrder, CreatePublicOrder or UpdateOrderStatus has written the store
\* and built the response of some order of some restaurant: the handler stands
\* before its call of publish; max bounds the number of events
HandlerReadyUpTo(c, max) ==
    /\ pc[c] \in {"idle", "done"}
    /\ nextOrderID <= max
    /\ \E t \in DOMAIN tables :
         /\ RestaurantExists(tables[t])
         /\ request' = [request EXCEPT ![c] =
                          [kind |-> "public", username |-> "u1",
                           RestaurantID |-> tables[t], TableID |-> t,
                           OrderItems |-> <<>>]]
         /\ createdOrder' = [createdOrder EXCEPT ![c] =
                               [ID |-> nextOrderID, TableID |-> t, Status |-> "pending",
                                TotalAmount |-> 0, OrderItems |-> <<>>]]
    /\ nextOrderID' = nextOrderID + 1
    /\ pc' = [pc EXCEPT ![c] = "publish"]
    /\ result' = [result EXCEPT ![c] = "created"]
    /\ UNCHANGED <<menuItems, initialQuantity, orders, orderItems, storeFailures,
                   idx, totalAmount, lineItems, txItems, locals, unitPrices, hubSide, directory, limiterVars>>

\* the handlers of the hub specification: at most MaxEvents events
HandlerReady(c) == HandlerReadyUpTo(c, MaxEvents)

NextOrders ==
    \/ \E c \in Calls : CreatePublicOrderBegin(c)
    \/ \E c \in Calls : ReserveLine(c)
    \/ \E c \in Calls : LockDeadlock(c)
    \/ \E c \in Calls : PublicCreate(c)
    \/ \E c \in Calls : PublicCommit(c)
    \/ \E c \in Calls : CreateOrderBegin(c)
    \/ \E c \in Calls : PriceLine(c)
    \/ \E c \in Calls : AuthCreate(c)
    \/ \E c \in Calls : Publish(c)
    \/ HubBroadcast

SpecOrders == Init /\ [][NextOrders]_vars

NextHub ==
    \/ \E c \in Calls : HandlerReady(c)
    \/ \E c \in Calls : Publish(c)
    \/ \E s \in Sessions : Connect(s)
    \/ \E s \in Sessions : HubRegister(s)
    \/ \E s \in Sessions : ReadPumpEnds(s)
    \/ \E s \in Sessions : HubUnregister(s)
    \/ \E s \in Sessions : WritePump(s)
    \/ \E s \in Sessions : WritePumpExit(s)
    \/ HubBroadcast

\* the hub specification starts from one stock: its handlers are past the store
InitHub == Init /\ \A m \in Items : menuItems[m].Quantity = MaxStock

SpecHub == InitHub /\ [][NextHub]_vars

\* The Go scheduler runs every goroutine that can take a step: the hub loop
\* takes the case that is ready, a pump with a message writes it, a handler
\* with room in the channel sends.  That the peer closes the connection, or
\* that a write fails, is not the program's to decide: no fairness for them.
FairHub ==
    /\ WF_vars(HubBroadcast)
    /\ \A s \in Sessions :
         /\ WF_vars(HubRegister(s))
         /\ WF_vars(HubUnregister(s))
         /\ WF_vars(WritePump(s))
         /\ WF_vars(WritePumpExit(s))
    /\ \A c \in Calls : WF_vars(Publish(c))

SpecHubFair == SpecHub /\ FairHub

(***************************************************************************)
(* Delivery: one publishing handler, one session, the hub                  *)
(***************************************************************************)
\* a handler stands before publish, for up to MaxDeliveryEvents events
EventReady(c) == HandlerReadyUpTo(c, MaxDeliveryEvents)

NextDelivery ==
    \/ \E c \in {1} : EventReady(c)
    \/ \E c \in Calls : Publish(c)
    \/ \E s \in Listeners : Connect(s)
    \/ \E s \in Sessions : HubRegister(s)
    \/ \E s \in Sessions : ReadPumpEnds(s)
    \/ \E s \in Sessions : HubUnregister(s)
    \/ \E s \in Sessions : WritePump(s)
    \/ \E s \in Sessions : WritePumpExit(s)
    \/ HubBroadcast

InitDelivery == InitHub

\* the scheduling of FairHub
SpecDelivery == InitDelivery /\ [][NextDelivery]_vars /\ FairHub

(***************************************************************************)
(* UpdateMenuItem: the owner's edit of a menu item                         *)
(***************************************************************************)
\* the menu items the edits of the model go to, and the price and quantity a
\* request body can carry for menu item m
EditedItems == {1}
EditPrices(m) == {ItemPrice[m], ItemPrice[m] + 1}
EditQuantities == {-1, MaxStock}

\* verifyRestaurantOwnership, First(&menuItem), BodyParser, then every field
\* of the row set from the request and database.DB.Save(&menuItem), whose
\* UPDATE waits while a transaction holds the row lock.  An edit that ends in
\* an error response writes nothing.
UpdateMenuItem(username, rid, m, price, quantity) ==
    /\ RestaurantOwned(username, rid)
    /\ MenuItemFound(m, rid)
    /\ LockHolder(m) = NoCall
    /\ menuItems' = [menuItems EXCEPT ![m].Price = price, ![m].Quantity = quantity]
    /\ menuItems' # menuItems
    /\ UNCHANGED <<initialQuantity, orders, orderItems, nextOrderID, storeFailures,
                   pc, request, idx, totalAmount, lineItems, txItems, createdOrder,
                   result, locals, unitPrices, hubSide, directory, limiterVars>>

\* one public placement, one authenticated placement and the owner's edits
NextMenu ==
    \/ \E c \in {1} : CreatePublicOrderBegin(c)
    \/ \E c \in Calls : ReserveLine(c)
    \/ \E c \in Calls : PublicCreate(c)
    \/ \E c \in Calls : PublicCommit(c)
    \/ \E c \in Calls \ {1} : CreateOrderBegin(c)
    \/ \E c \in Calls : PriceLine(c)
    \/ \E c \in Calls : AuthCreate(c)
    \/ \E c \in Calls : Publish(c)
    \/ HubBroadcast
    \/ \E username \in Users, rid \in Restaurants, m \in EditedItems :
         \E price \in EditPrices(m), quantity \in EditQuantities :
            UpdateMenuItem(username, rid, m, price, quantity)

InitMenu == InitHub

SpecMenu == InitMenu /\ [][NextMenu]_vars

(***************************************************************************)
(* UpdateOrderStatus                                                       *)
(***************************************************************************)
\* the status strings a request body carries in the model: two frontend
\* statuses and one internal status
StatusStrings == {"active", "paid", "cancelled"}

\* the requests of UpdateOrderStatus: caller, :restaurant_id, :id and body
StatusRequests ==
    [kind : {"status"}, username : {"u1", "u2"}, RestaurantID : {1, 2},
     OrderID : {1, 2}, Status : StatusStrings]

\* utils.MapFrontendStatusToInternal
MapFrontendStatusToInternal(status) ==
    CASE status = "active" -> "pending"
      [] status = "delivered" -> "delivered"
      [] status = "paid" -> "completed"
      [] OTHER -> status

\* an order lookup by id alone
OrderFoundAny(id, rid) == \E o \in orders : o.ID = id

\* Where("id = ? AND table_id IN ?", orderID, tableIDs).First(&order), with
\* tableIDs the ids of the tables of the restaurant
OrderFound(id, rid) ==
    \E o \in orders : o.ID = id /\ TableFound(o.TableID, rid)

\* the order_items of order id, as Preload("OrderItems") loads them
LoadedItems(id) ==
    LET rows == {i \in orderItems : i.OrderID = id}
    IN  [p \in 1 .. Cardinality(rows) |->
           LET row == CHOOSE i \in rows : i.Pos = p
           IN  [MenuItemID |-> row.MenuItemID, Quantity |-> row.Quantity]]

\* the models.Order that First(&order) loads
LoadedOrder(id) ==
    LET o == CHOOSE x \in orders : x.ID = id
    IN  [ID |-> o.ID, TableID |-> o.TableID, Status |-> o.Status,
         TotalAmount |-> o.TotalAmount, OrderItems |-> <<>>]

\* verifyRestaurantOwnership, the tables of the restaurant, the order lookup
\* and BodyParser
UpdateOrderStatusBegin(c) ==
    /\ pc[c] \in {"idle", "done"}
    /\ Len(published) < MaxEvents
    /\ \E r \in StatusRequests :
        /\ request' = [request EXCEPT ![c] = r]
        /\ IF ~RestaurantOwned(r.username, r.RestaurantID)
           THEN ReturnError(c, "restaurant_not_found")
           ELSE IF ~OrderFound(r.OrderID, r.RestaurantID)
           THEN ReturnError(c, "order_not_found")
           ELSE /\ pc' = [pc EXCEPT ![c] = "save"]
                /\ createdOrder' = [createdOrder EXCEPT ![c] = LoadedOrder(r.OrderID)]
                /\ result' = [result EXCEPT ![c] = "none"]
                /\ UNCHANGED <<txItems, idx, totalAmount, lineItems, unitPrices,
                               menuItems, orders, orderItems>>
    /\ UNCHANGED <<initialQuantity, nextOrderID, storeFailures, locals, hubSide, directory, limiterVars>>

\* the units the stored lines of order id hold of menu item m
RECURSIVE HeldOf(_, _, _)
HeldOf(id, m, n) ==
    IF n = 0 THEN 0
    ELSE HeldOf(id, m, n - 1) +
         (IF LoadedItems(id)[n].MenuItemID = m THEN LoadedItems(id)[n].Quantity ELSE 0)

\* a save that gives the units of a cancelled order back to the menu items
UpdateOrderStatusSaveRestock(c) ==
    /\ pc[c] = "save"
    /\ \/ LET order == [createdOrder[c] EXCEPT
                          !.Status = MapFrontendStatusToInternal(request[c].Status)]
          IN  /\ orders' = {o \in orders : o.ID # order.ID} \cup {OrderRow(order)}
              /\ createdOrder' = [createdOrder EXCEPT ![c] = order]
              /\ pc' = [pc EXCEPT ![c] = "reload"]
              /\ menuItems' =
                   [m \in Items |->
                      IF order.Status = "cancelled"
                      THEN [menuItems[m] EXCEPT !.Quantity =
                              @ + HeldOf(order.ID, m, Len(LoadedItems(order.ID)))]
                      ELSE menuItems[m]]
              /\ UNCHANGED <<result, txItems, idx, totalAmount, lineItems, unitPrices,
                             storeFailures, orderItems>>
       \/ /\ StoreFails
          /\ ReturnError(c, "store_error")
    /\ UNCHANGED <<initialQuantity, nextOrderID, request, locals, hubSide, directory, limiterVars>>

\* order.Status = MapFrontendStatusToInternal(request.Status) and
\* database.DB.Save(&order), which writes every column of the row read
UpdateOrderStatusSave(c) ==
    /\ pc[c] = "save"
    /\ \/ LET order == [createdOrder[c] EXCEPT
                          !.Status = MapFrontendStatusToInternal(request[c].Status)]
          IN  /\ orders' = {o \in orders : o.ID # order.ID} \cup {OrderRow(order)}
              /\ createdOrder' = [createdOrder EXCEPT ![c] = order]
              /\ pc' = [pc EXCEPT ![c] = "reload"]
              /\ UNCHANGED <<result, txItems, idx, totalAmount, lineItems, unitPrices,
                             storeFailures, menuItems, orderItems>>
       \/ /\ StoreFails
          /\ ReturnError(c, "store_error")
    /\ UNCHANGED <<initialQuantity, nextOrderID, request, locals, hubSide, directory, limiterVars>>

\* database.DB.Preload("OrderItems").First(&order, order.ID): the row as it
\* is stored now, with its items; the handler then builds the response
UpdateOrderStatusReload(c) ==
    /\ pc[c] = "reload"
    /\ createdOrder' =
         [createdOrder EXCEPT ![c] =
            IF \E o \in orders : o.ID = createdOrder[c].ID
            THEN [LoadedOrder(createdOrder[c].ID) EXCEPT
                    !.OrderItems = LoadedItems(createdOrder[c].ID)]
            ELSE @]
    /\ result' = [result EXCEPT ![c] = "updated"]
    /\ pc' = [pc EXCEPT ![c] = "publish"]
    /\ UNCHANGED <<menuItems, initialQuantity, orders, orderItems, nextOrderID,
                   storeFailures, request, idx, totalAmount, lineItems, txItems,
                   locals, unitPrices, hubSide, directory, limiterVars>>

\* the order the status updates of the model work on: the first order of
\* table 1, one unit of menu item 1, as CreatePublicOrder has left it
FirstOrder ==
    [ID |-> 1, TableID |-> 1, Status |-> "pending", TotalAmount |-> ItemPrice[1],
     OrderItems |-> <<[MenuItemID |-> 1, Quantity |-> 1]>>]

\* the state after that placement and the fan-out of its event
InitStatus ==
    /\ menuItems = [m \in Items |-> [RestaurantID |-> ItemRestaurant[m],
                                     Price |-> ItemPrice[m],
                                     Quantity |-> IF m = 1 THEN MaxStock - 1
                                                  ELSE MaxStock]]
    /\ initialQuantity = [m \in Items |-> MaxStock]
    /\ orders = {OrderRow(FirstOrder)}
    /\ orderItems = OrderItemRows(FirstOrder)
    /\ nextOrderID = 2
    /\ storeFailures = 0
    /\ pc = [c \in Calls |-> IF c = 1 THEN "done" ELSE "idle"]
    /\ request = [c \in Calls |->
                    IF c = 1
                    THEN [kind |-> "public", username |-> "u1", RestaurantID |-> 1,
                          TableID |-> 1,
                          OrderItems |-> <<[MenuItemID |-> 1, Quantity |-> 1]>>]
                    ELSE NoRequest]
    /\ idx = [c \in Calls |-> 1]
    /\ totalAmount = [c \in Calls |-> 0]
    /\ lineItems = [c \in Calls |-> <<>>]
    /\ txItems = [c \in Calls |-> EmptyTx]
    /\ createdOrder = [c \in Calls |-> NoOrder]
    /\ result = [c \in Calls |-> IF c = 1 THEN "created" ELSE "none"]
    /\ locals = [c \in Calls |-> NoUser]
    /\ restaurants = [r \in DOMAIN RestaurantOwner |->
                        [UserID |-> RestaurantOwner[r], Deleted |-> FALSE]]
    /\ tables = TableRestaurant
    /\ InitLimiter
    /\ unitPrices = [c \in Calls |-> <<>>]
    /\ broadcast = <<>>
    /\ published = <<[Type |-> "order_created",
                      Order |-> BuildOrderResponse(FirstOrder, 1)]>>
    /\ clients = {}
    /\ restaurantIDs = [s \in Sessions |-> {}]
    /\ send = [s \in Sessions |-> <<>>]
    /\ sendClosed = [s \in Sessions |-> FALSE]
    /\ closePanics = FALSE
    /\ dropped = {}
    /\ sessPc = [s \in Sessions |-> "new"]
    /\ writerPc = [s \in Sessions |-> "none"]
    /\ connClosed = [s \in Sessions |-> FALSE]
    /\ written = [s \in Sessions |-> <<>>]

NextStatus ==
    \/ \E c \in Calls : UpdateOrderStatusBegin(c)
    \/ \E c \in Calls : UpdateOrderStatusSave(c)
    \/ \E c \in Calls : UpdateOrderStatusReload(c)
    \/ \E c \in Calls : Publish(c)
    \/ HubBroadcast

SpecStatus == InitStatus /\ [][NextStatus]_vars

(***************************************************************************)
(* ProtectRoute                                                            *)
(***************************************************************************)
\* A token string: none (the empty string), or a JWT, told by the secret
\* that signed it ("access": the access secret), whether it has expired, its
\* type claim, and which of the claims username and user_id it carries; a
\* username claim, when there is one, is "u1".
NoToken == [key |-> "none"]
Tokens ==
    [key : {"access", "other"}, expired : BOOLEAN,
     type : {"access", "websocket", "refresh"},
     claims : SUBSET {"username", "user_id"}]

\* An Authorization header: the string "Bearer " + rest, or rest alone
AuthHeaders == [bearer : BOOLEAN, rest : Tokens \cup {NoToken}]

\* the requests of a protected route: access_token cookie and header
ProtectedRequests ==
    [kind : {"protected"}, cookie : Tokens \cup {NoToken}, authorization : AuthHeaders]

\* extractBearerToken: the header without a leading "Bearer ", any case
ExtractBearerToken(raw) == raw.rest

\* a validation that does not look at the expiry
ValidateAccessTokenNoExpiry(token) ==
    token.key = "access" /\ token.type \in {"access", "websocket"}

\* utils.ValidateAccessToken: the signature under the access secret, the
\* expiry (jwt.Parse) and the type claim
ValidateAccessToken(token) ==
    /\ token.key = "access"
    /\ ~token.expired
    /\ token.type \in {"access", "websocket"}

\* tokenString: the cookie, and only when it is empty the header
TokenString(r) ==
    IF r.cookie # NoToken THEN r.cookie ELSE ExtractBearerToken(r.authorization)

\* ProtectRoute: 401 without a token, with a token that does not validate or
\* lacks one of the two claims; else c.Locals is set and c.Next() runs
ProtectRoute(c) ==
    /\ pc[c] = "idle"
    /\ \E r \in ProtectedRequests :
        /\ request' = [request EXCEPT ![c] = r]
        /\ LET tokenString == TokenString(r)
           IN  IF \/ tokenString = NoToken
                  \/ ~ValidateAccessToken(tokenString)
                  \/ "username" \notin tokenString.claims
                  \/ "user_id" \notin tokenString.claims
               THEN /\ ReturnError(c, "unauthorized")
                    /\ UNCHANGED locals
               ELSE /\ locals' = [locals EXCEPT ![c] = "u1"]
                    /\ pc' = [pc EXCEPT ![c] = "handler"]
                    /\ UNCHANGED <<result, txItems, createdOrder, idx, totalAmount,
                                   lineItems, unitPrices, menuItems, orders, orderItems>>
    /\ UNCHANGED <<initialQuantity, nextOrderID, storeFailures, hubSide, directory, limiterVars>>

\* c.Next(): the downstream handler runs and answers
Downstream(c) ==
    /\ pc[c] = "handler"
    /\ pc' = [pc EXCEPT ![c] = "done"]
    /\ result' = [result EXCEPT ![c] = "handled"]
    /\ UNCHANGED <<menuItems, initialQuantity, orders, orderItems, nextOrderID,
                   storeFailures, request, idx, totalAmount, lineItems, txItems,
                   createdOrder, locals, unitPrices, hubSide, directory, limiterVars>>

\* one request to a protected route
NextAuth ==
    \/ \E c \in {1} : ProtectRoute(c)
    \/ \E c \in {1} : Downstream(c)

InitAuth == InitHub

SpecAuth == InitAuth /\ [][NextAuth]_vars

(***************************************************************************)
(* CreateRestaurant, CreateTable, DeleteRestaurant                         *)
(***************************************************************************)
\* database.DB.Create(&restaurant) with UserID the caller: the row gets the
\* next id of the sequence
CreateRestaurant(username) ==
    /\ Cardinality(DOMAIN restaurants) < MaxRestaurants
    /\ restaurants' =
         restaurants @@ ((Cardinality(DOMAIN restaurants) + 1) :>
                            [UserID |-> username, Deleted |-> FALSE])
    /\ UNCHANGED <<menuItems, initialQuantity, orders, orderItems, nextOrderID,
                   storeFailures, pc, request, idx, totalAmount, lineItems, txItems,
                   createdOrder, result, locals, unitPrices, tables, hubSide, limiterVars>>

\* verifyRestaurantOwnership, then database.DB.Create(&table)
CreateTable(username, rid) ==
    /\ RestaurantOwned(username, rid)
    /\ Cardinality(DOMAIN tables) < MaxTables
    /\ tables' = tables @@ ((Cardinality(DOMAIN tables) + 1) :> rid)
    /\ UNCHANGED <<menuItems, initialQuantity, orders, orderItems, nextOrderID,
                   storeFailures, pc, request, idx, totalAmount, lineItems, txItems,
                   createdOrder, result, locals, unitPrices, restaurants, hubSide, limiterVars>>

\* the restaurant with this id owned by the caller, then
\* database.DB.Delete(&restaurant), which sets deleted_at
DeleteRestaurant(username, rid) ==
    /\ RestaurantOwned(username, rid)
    /\ restaurants' = [restaurants EXCEPT ![rid].Deleted = TRUE]
    /\ UNCHANGED <<menuItems, initialQuantity, orders, orderItems, nextOrderID,
                   storeFailures, pc, request, idx, totalAmount, lineItems, txItems,
                   createdOrder, result, locals, unitPrices, tables, hubSide, limiterVars>>

\* a handler has placed an order of a table of a restaurant that exists
OrderPlaced(c) ==
    /\ nextOrderID <= MaxEntitleEvents
    /\ HandlerReady(c)

\* the principals of the restaurant requests
Principals == {"u1"}

\* sessions connect and receive while their principals create and delete
\* restaurants and tables and call 1 places orders
NextEntitle ==
    \/ \E s \in Sessions : Connect(s)
    \/ \E s \in Sessions : HubRegister(s)
    \/ \E c \in {1} : OrderPlaced(c)
    \/ \E c \in Calls : Publish(c)
    \/ HubBroadcast
    \/ \E s \in Sessions : WritePump(s)
    \/ \E u \in Principals : CreateRestaurant(u)
    \/ \E u \in Principals : \E r \in DOMAIN restaurants : CreateTable(u, r)
    \/ \E u \in Principals : \E r \in DOMAIN restaurants : DeleteRestaurant(u, r)

InitEntitle == InitHub

SpecEntitle == InitEntitle /\ [][NextEntitle]_vars

(***************************************************************************)
(* Status updates with a subscriber                                        *)
(***************************************************************************)
\* status updates of the first order by concurrent calls, the hub, and one
\* session that connects and receives
NextFeed ==
    \/ \E c \in Calls : UpdateOrderStatusBegin(c)
    \/ \E c \in Calls : UpdateOrderStatusSave(c)
    \/ \E c \in Calls : UpdateOrderStatusReload(c)
    \/ \E c \in Calls : Publish(c)
    \/ HubBroadcast
    \/ \E s \in Listeners : Connect(s)
    \/ \E s \in Listeners : HubRegister(s)
    \/ \E s \in Listeners : WritePump(s)

InitFeed == InitStatus

SpecFeed == InitFeed /\ [][NextFeed]_vars

(***************************************************************************)
(* DeleteOrder                                                             *)
(***************************************************************************)
\* the requests of DeleteOrder: caller, :restaurant_id and :id
DeleteRequests ==
    [kind : {"delete"}, username : {"u1", "u2"}, RestaurantID : {1, 2},
     OrderID : {1, 2}]

\* verifyRestaurantOwnership, the tables of the restaurant and the order
\* lookup
DeleteOrderBegin(c) ==
    /\ pc[c] \in {"idle", "done"}
    /\ \E r \in DeleteRequests :
        /\ request' = [request EXCEPT ![c] = r]
        /\ IF ~RestaurantOwned(r.username, r.RestaurantID)
           THEN ReturnError(c, "restaurant_not_found")
           ELSE IF ~OrderFound(r.OrderID, r.RestaurantID)
           THEN ReturnError(c, "order_not_found")
           ELSE /\ pc' = [pc EXCEPT ![c] = "delete_items"]
                /\ createdOrder' = [createdOrder EXCEPT ![c] = LoadedOrder(r.OrderID)]
                /\ result' = [result EXCEPT ![c] = "none"]
                /\ UNCHANGED <<txItems, idx, totalAmount, lineItems, unitPrices,
                               menuItems, orders, orderItems>>
    /\ UNCHANGED <<initialQuantity, nextOrderID, storeFailures, locals, hubSide, directory, limiterVars>>

\* database.DB.Where("order_id = ?", order.ID).Delete(&models.OrderItem{}):
\* a statement of its own, outside any transaction; its error is not looked
\* at, so the handler goes on whether or not the rows were deleted
DeleteOrderItems(c) ==
    /\ pc[c] = "delete_items"
    /\ \/ /\ orderItems' = {i \in orderItems : i.OrderID # createdOrder[c].ID}
          /\ UNCHANGED storeFailures
       \/ /\ StoreFails
          /\ UNCHANGED orderItems
    /\ pc' = [pc EXCEPT ![c] = "delete_order"]
    /\ UNCHANGED <<menuItems, initialQuantity, orders, nextOrderID, request, idx,
                   totalAmount, lineItems, txItems, createdOrder, result, locals,
                   unitPrices, hubSide, directory, limiterVars>>

\* database.DB.Delete(&order): a second statement; on its error the handler
\* answers 500 "Error deleting order"
DeleteOrderRow(c) ==
    /\ pc[c] = "delete_order"
    /\ \/ /\ orders' = {o \in orders : o.ID # createdOrder[c].ID}
          /\ pc' = [pc EXCEPT ![c] = "done"]
          /\ result' = [result EXCEPT ![c] = "deleted"]
          /\ createdOrder' = [createdOrder EXCEPT ![c] = NoOrder]
          /\ UNCHANGED <<txItems, idx, totalAmount, lineItems, unitPrices,
                         storeFailures, menuItems, orderItems>>
       \/ /\ StoreFails
          /\ ReturnError(c, "store_error")
    /\ UNCHANGED <<initialQuantity, nextOrderID, request, locals, hubSide, directory, limiterVars>>

\* call 1 places an order, through either entry point; the other calls
\* delete orders, one request after another
NextDelete ==
    \/ \E c \in {1} : CreatePublicOrderBegin(c)
    \/ \E c \in Calls : ReserveLine(c)
    \/ \E c \in Calls : PublicCreate(c)
    \/ \E c \in Calls : PublicCommit(c)
    \/ \E c \in {1} : CreateOrderBegin(c)
    \/ \E c \in Calls : PriceLine(c)
    \/ \E c \in Calls : AuthCreate(c)
    \/ \E c \in Calls : Publish(c)
    \/ HubBroadcast
    \/ \E c \in Calls \ {1} : DeleteOrderBegin(c)
    \/ \E c \in Calls : DeleteOrderItems(c)
    \/ \E c \in Calls : DeleteOrderRow(c)

InitDelete == InitHub

SpecDelete == InitDelete /\ [][NextDelete]_vars

(***************************************************************************)
(* Status updates and deletions of a placed order                          *)
(***************************************************************************)
\* after the first order has been placed: call 1 sends status updates and
\* the other calls deletions, one request after another and all at the same
\* time, and the hub fans the events out
NextAfterPlacement ==
    \/ \E c \in {1} : UpdateOrderStatusBegin(c)
    \/ \E c \in Calls : UpdateOrderStatusSave(c)
    \/ \E c \in Calls : UpdateOrderStatusReload(c)
    \/ \E c \in Calls \ {1} : DeleteOrderBegin(c)
    \/ \E c \in Calls : DeleteOrderItems(c)
    \/ \E c \in Calls : DeleteOrderRow(c)
    \/ \E c \in Calls : Publish(c)
    \/ HubBroadcast

InitAfterPlacement == InitStatus

SpecAfterPlacement == InitAfterPlacement /\ [][NextAfterPlacement]_vars

(***************************************************************************)
(* RateLimiter: CheckRateLimit, cleanup, RateLimitMiddleware               *)
(***************************************************************************)
\* the client addresses c.IP() gives
IPs == {"ip1"}
\* the routes setupRoutes puts behind RateLimitMiddleware, with the
\* maxRequests of each; the window of each is time.Minute
RateLimitedRoutes == {"register", "login", "refresh"}
RouteLimit == ("register" :> 5) @@ ("login" :> 10) @@ ("refresh" :> 5)
RouteWindow == 1
\* the ticker period of RateLimiter.cleanup and the age past which it deletes
\* a record, in minutes
CleanupEvery == 5
Retention == 10
\* the maxRequests and windows (minutes) the limiter is set up with in the
\* rate limiter specification
Limits == [maxRequests : {1, 2}, window : {1, 11}]

\* the time passes
Tick ==
    /\ now < MaxTime
    /\ now' = now + 1
    /\ UNCHANGED <<menuItems, initialQuantity, orders, orderItems, nextOrderID,
                   storeFailures, pc, request, idx, totalAmount, lineItems, txItems,
                   createdOrder, result, locals, unitPrices, directory, hubSide,
                   requests, limit, checks, attempts>>

\* !exists || now.Sub(record.LastTime) > window
NewWindow(key, window) ==
    key \notin DOMAIN requests \/ now - requests[key].LastTime > window

\* the negation of record.Count >= maxRequests
WithinLimit(key, maxRequests) == ~(requests[key].Count >= maxRequests)

\* the value CheckRateLimit returns
Allowed(key, maxRequests, window) ==
    NewWindow(key, window) \/ WithinLimit(key, maxRequests)

\* rl.requests after CheckRateLimit
RequestsAfter(key, maxRequests, window) ==
    IF NewWindow(key, window)
    THEN [k \in DOMAIN requests \cup {key} |->
            IF k = key THEN [Count |-> 1, LastTime |-> now] ELSE requests[k]]
    ELSE IF ~WithinLimit(key, maxRequests)
    THEN requests
    ELSE [requests EXCEPT ![key] = [Count |-> @.Count + 1, LastTime |-> now]]

\* RateLimiter.CheckRateLimit(key, maxRequests, window), called for a request
\* to `route`
CheckRateLimit(key, route, maxRequests, window) ==
    /\ Len(checks) < MaxChecks
    /\ requests' = RequestsAfter(key, maxRequests, window)
    /\ checks' = Append(checks, [key |-> key, route |-> route, at |-> now,
                                 allowed |-> Allowed(key, maxRequests, window)])
    /\ UNCHANGED <<menuItems, initialQuantity, orders, orderItems, nextOrderID,
                   storeFailures, pc, request, idx, totalAmount, lineItems, txItems,
                   createdOrder, result, locals, unitPrices, directory, hubSide,
                   now, limit, attempts>>

\* RateLimiter.cleanup: on each tick of its ticker the records older than the
\* retention are deleted
CleanupRequests ==
    /\ now > 0
    /\ now % CleanupEvery = 0
    /\ requests' = [k \in {x \in DOMAIN requests : ~(now - requests[x].LastTime > Retention)}
                      |-> requests[k]]
    /\ requests' # requests
    /\ UNCHANGED <<menuItems, initialQuantity, orders, orderItems, nextOrderID,
                   storeFailures, pc, request, idx, totalAmount, lineItems, txItems,
                   createdOrder, result, locals, unitPrices, directory, hubSide,
                   now, limit, checks, attempts>>

\* the handler RateLimitMiddleware(maxRequests, window) returns for a route of
\* setupRoutes, run for a request of client ip
RouteRequest(route, ip) ==
    CheckRateLimit(ip, route, RouteLimit[route], RouteWindow)

\* the time of the routes specification
RouteTick ==
    /\ now < MaxRouteTime
    /\ Tick

\* requests of one client to the three rate-limited routes
NextRoutes ==
    \/ \E route \in RateLimitedRoutes : \E ip \in IPs : RouteRequest(route, ip)
    \/ RouteTick

InitRoutes == InitHub

SpecRoutes == InitRoutes /\ [][NextRoutes]_vars

\* utils.RateLimitMiddleware(maxRequests, window): the returned handler keeps
\* the two values
RateLimitMiddleware(maxRequests, window) ==
    /\ limit = NoLimit
    /\ limit' = [maxRequests |-> maxRequests, window |-> window]
    /\ UNCHANGED <<menuItems, initialQuantity, orders, orderItems, nextOrderID,
                   storeFailures, pc, request, idx, totalAmount, lineItems, txItems,
                   createdOrder, result, locals, unitPrices, directory, hubSide,
                   now, requests, checks, attempts>>

\* a request passes through the handler of RateLimitMiddleware
LimitedRequest(ip) ==
    /\ limit # NoLimit
    /\ Len(checks) < MaxRateChecks
    /\ CheckRateLimit(ip, "any", limit.maxRequests, limit.window)

\* one limiter, set up once, called at any times for one client, with the
\* cleanup goroutine running
NextRate ==
    \/ \E l \in Limits : RateLimitMiddleware(l.maxRequests, l.window)
    \/ \E ip \in IPs : LimitedRequest(ip)
    \/ Tick
    \/ CleanupRequests

InitRate == InitHub

SpecRate == InitRate /\ [][NextRate]_vars

(***************************************************************************)
(* BruteForceProtector: CheckLoginAttempt, RecordSuccessfulLogin, cleanup, *)
(* and Login                                                               *)
(***************************************************************************)
\* NewBruteForceProtector: lockoutPeriod, and the attempts and the minutes of
\* the window of CheckLoginAttempt
LockoutPeriod == 15
MaxAttempts == 5
AttemptWindow == 5
\* the ticker period of BruteForceProtector.cleanup and the idle age past
\* which it deletes a record that is not locked, in minutes
AttemptCleanupEvery == 10
AttemptRetention == 10

\* the AttemptRecord of the first attempt, of resetAttempt and of
\* resetAttemptForUser
FirstAttempt == [Count |-> 1, LastTime |-> now, LockedOut |-> FALSE, LockTime |-> 0]

\* now.Sub(attempt.LockTime) > bfp.lockoutPeriod
LockExpired(username) == now - attempts[username].LockTime > LockoutPeriod

\* the value CheckLoginAttempt returns
AttemptAllowed(username) ==
    IF username \notin DOMAIN attempts THEN TRUE
    ELSE IF attempts[username].LockedOut THEN LockExpired(username)
    ELSE IF now - attempts[username].LastTime <= AttemptWindow
    THEN ~(attempts[username].Count >= MaxAttempts)
    ELSE TRUE

\* bfp.attempts after CheckLoginAttempt: within the window the count grows
\* and LastTime stays the time of the window's first attempt
AttemptsAfter(username) ==
    IF username \notin DOMAIN attempts
    THEN [k \in DOMAIN attempts \cup {username} |->
            IF k = username THEN FirstAttempt ELSE attempts[k]]
    ELSE IF attempts[username].LockedOut
    THEN IF LockExpired(username)
         THEN [attempts EXCEPT ![username] = FirstAttempt]
         ELSE attempts
    ELSE IF now - attempts[username].LastTime <= AttemptWindow
    THEN IF attempts[username].Count >= MaxAttempts
         THEN [attempts EXCEPT ![username].LockedOut = TRUE,
                               ![username].LockTime = now]
         ELSE [attempts EXCEPT ![username].Count = @ + 1]
    ELSE [attempts EXCEPT ![username] = FirstAttempt]

\* RecordSuccessfulLogin: delete(bfp.attempts, username)
WithoutRecord(records, username) ==
    [k \in DOMAIN records \ {username} |-> records[k]]

\* Login: utils.CheckBruteForce(username), 429 when it refuses; else the
\* password is compared and, when it is right, RecordSuccessfulLogin runs
Login(username, passwordRight) ==
    /\ Len(checks) < MaxLogins
    /\ checks' = Append(checks,
                        [key |-> username,
                         route |-> IF passwordRight /\ AttemptAllowed(username)
                                   THEN "login-ok" ELSE "login",
                         at |-> now, allowed |-> AttemptAllowed(username)])
    /\ attempts' = IF passwordRight /\ AttemptAllowed(username)
                   THEN WithoutRecord(AttemptsAfter(username), username)
                   ELSE AttemptsAfter(username)
    /\ UNCHANGED <<menuItems, initialQuantity, orders, orderItems, nextOrderID,
                   storeFailures, pc, request, idx, totalAmount, lineItems, txItems,
                   createdOrder, result, locals, unitPrices, directory, hubSide,
                   now, requests, limit>>

\* BruteForceProtector.cleanup: on each tick of its ticker, the locked records
\* whose lockout is over and the other records idle for more than ten minutes
\* are deleted
CleanupAttempts ==
    /\ now > 0
    /\ now % AttemptCleanupEvery = 0
    /\ attempts' =
         [k \in {u \in DOMAIN attempts :
                    IF attempts[u].LockedOut
                    THEN ~(now - attempts[u].LockTime > LockoutPeriod)
                    ELSE ~(now - attempts[u].LastTime > AttemptRetention)}
            |-> attempts[k]]
    /\ attempts' # attempts
    /\ UNCHANGED <<menuItems, initialQuantity, orders, orderItems, nextOrderID,
                   storeFailures, pc, request, idx, totalAmount, lineItems, txItems,
                   createdOrder, result, locals, unitPrices, directory, hubSide,
                   now, requests, limit, checks>>

\* five minutes pass
FiveMinutes ==
    /\ now + 5 <= MaxLoginTime
    /\ now' = now + 5
    /\ UNCHANGED <<menuItems, initialQuantity, orders, orderItems, nextOrderID,
                   storeFailures, pc, request, idx, totalAmount, lineItems, txItems,
                   createdOrder, result, locals, unitPrices, directory, hubSide,
                   requests, limit, checks, attempts>>

\* login requests for one username at any of the times, with the cleanup
\* goroutine running
NextLogin ==
    \/ \E username \in {"u1"} : \E passwordRight \in BOOLEAN : Login(username, passwordRight)
    \/ FiveMinutes
    \/ CleanupAttempts

InitLogin == InitHub

SpecLogin == InitLogin /\ [][NextLogin]_vars

(***************************************************************************)
(* Concurrent placements to their commit or rollback                       *)
(***************************************************************************)
NextPlacement ==
    \/ \E c \in Calls : CreatePublicOrderBegin(c)
    \/ \E c \in Calls : ReserveLine(c)
    \/ \E c \in Calls : LockDeadlock(c)
    \/ \E c \in Calls : PublicCreate(c)
    \/ \E c \in Calls : PublicCommit(c)

\* A handler goroutine that can take its next statement takes it, the store
\* answers a statement whose row lock is free, and PostgreSQL's deadlock
\* detector runs while transactions wait in a cycle.  Whether a request
\* arrives is not the program's to decide.
FairPlacement ==
    \A c \in Calls :
        /\ WF_vars(ReserveLine(c))
        /\ WF_vars(LockDeadlock(c))
        /\ WF_vars(PublicCreate(c))
        /\ WF_vars(PublicCommit(c))

SpecPlacement == InitHub /\ [][NextPlacement]_vars /\ FairPlacement

(***************************************************************************)
(* Measures the properties use.                                            *)
(***************************************************************************)
\* the units of menu item m that the order_items `body` asks for, normalised
RECURSIVE Requested(_, _)
Requested(body, m) ==
    IF body = <<>> THEN 0
    ELSE (IF Head(body).MenuItemID = m
          THEN NormalizeQuantity(Head(body).Quantity) ELSE 0)
         + Requested(Tail(body), m)

\* the units of menu item m that the calls of set S ask for
RECURSIVE RequestedBy(_, _)
RequestedBy(S, m) ==
    IF S = {} THEN 0
    ELSE LET c == CHOOSE x \in S : TRUE
         IN  Requested(request[c].OrderItems, m) + RequestedBy(S \ {c}, m)

\* the CreatePublicOrder calls that answered 201, and those of either entry point
SucceededPublic == {c \in Calls : request[c].kind = "public" /\ result[c] = "created"}
Succeeded == {c \in Calls : result[c] = "created"}
\* no call is under way
AllFinished == \A c \in Calls : pc[c] \in {"idle", "done"}
Min(a, b) == IF a <= b THEN a ELSE b

(***************************************************************************)
(* C1  No oversell.  For every menu item, the units of the                 *)
(* CreatePublicOrder calls that succeeded never add up to more than the    *)
(* initial quantity, the stored quantity is never negative, and when no    *)
(* call is under way the stored quantity is the initial quantity minus the *)
(* units of the successful calls.                                          *)
(***************************************************************************)
NoOversell ==
    \A m \in Items :
        /\ RequestedBy(SucceededPublic, m) <= initialQuantity[m]
        /\ menuItems[m].Quantity >= 0
        /\ AllFinished =>
             menuItems[m].Quantity = initialQuantity[m] - RequestedBy(SucceededPublic, m)

\* two public calls asked for the same item, one got it and one was refused
NoOversellWitness ==
    \E c, d \in Calls, m \in Items :
        /\ c # d /\ AllFinished
        /\ request[c].kind = "public" /\ request[d].kind = "public"
        /\ result[c] = "created" /\ result[d] = "insufficient"
        /\ Requested(request[c].OrderItems, m) > 0
        /\ Requested(request[d].OrderItems, m) > 0
        /\ menuItems[m].Quantity < initialQuantity[m]

(***************************************************************************)
(* C2  Atomicity of a failed placement.  The committed menu_items, orders  *)
(* and order_items rows change only in the step in which a call commits    *)
(* and answers "created"; no step of a CreatePublicOrder call that answers *)
(* an error changes them, whatever it had saved inside its transaction.    *)
(***************************************************************************)
FailedPlacementAtomic ==
    [][/\ (menuItems' # menuItems \/ orders' # orders \/ orderItems' # orderItems)
          => \E c \in Calls : result[c] = "none" /\ result'[c] = "created"
       /\ \A c \in Calls :
            (request'[c].kind = "public" /\ result[c] = "none"
             /\ result'[c] \notin {"none", "created"})
            => /\ menuItems' = menuItems
               /\ orders' = orders
               /\ orderItems' = orderItems
               /\ txItems'[c] = EmptyTx
       /\ \A c \in Calls : result[c] # "none" => result'[c] = result[c]]_vars

\* a public call failed on its second line after its first line had been
\* reserved inside the transaction, and the stock is what it was
FailedPlacementWitness ==
    \E c \in Calls :
        /\ request[c].kind = "public"
        /\ result[c] \in {"insufficient", "item_not_found", "store_error"}
        /\ Len(request[c].OrderItems) = 2
        /\ \A d \in Calls \ {c} : pc[d] = "idle"
        /\ \A m \in Items : menuItems[m].Quantity = initialQuantity[m]
        /\ orders = {}

(***************************************************************************)
(* C3  CreateOrder and CreatePublicOrder behave alike: an order of either  *)
(* entry point is created only when no line exceeds the stock, and every   *)
(* created order has taken its units from the stock.                       *)
(***************************************************************************)
EntryPointsAgree ==
    \A m \in Items :
        /\ \A c \in Succeeded : Requested(request[c].OrderItems, m) <= initialQuantity[m]
        /\ AllFinished =>
             menuItems[m].Quantity = initialQuantity[m] - RequestedBy(Succeeded, m)

(***************************************************************************)
(* C4  No spurious rejection under contention.  When every call is a       *)
(* CreatePublicOrder call with one line for the same menu item and the     *)
(* same quantity q, all have finished and no store statement failed, then  *)
(* exactly min(N, Q div q) calls answered "created" and all others         *)
(* answered the insufficient-quantity error.                               *)
(***************************************************************************)
Contention(m, q) ==
    /\ \A c \in Calls :
        /\ pc[c] = "done"
        /\ request[c].kind = "public"
        /\ TableFound(request[c].TableID, request[c].RestaurantID)
        /\ request[c].OrderItems = <<[MenuItemID |-> m, Quantity |-> q]>>
    /\ MenuItemFound(m, 1)
    /\ storeFailures = 0

NoSpuriousRejection ==
    \A m \in Items, q \in 1 .. MaxOrderQty :
        Contention(m, q) =>
            /\ Cardinality(SucceededPublic) = Min(NumCalls, initialQuantity[m] \div q)
            /\ \A c \in Calls \ SucceededPublic : result[c] = "insufficient"

\* quantity 1, two calls for one unit each: one created, one refused, stock 0
NoSpuriousRejectionWitness ==
    \E m \in Items, c, d \in Calls :
        /\ Contention(m, 1)
        /\ initialQuantity[m] = 1
        /\ result[c] = "created" /\ result[d] = "insufficient"
        /\ menuItems[m].Quantity = 0

(***************************************************************************)
(* Measures of the hub properties.                                         *)
(***************************************************************************)
\* the events of restaurant r in the sequence q, in q's order
RECURSIVE OfRestaurant(_, _)
OfRestaurant(q, r) ==
    IF q = <<>> THEN <<>>
    ELSE IF Head(q).Order.RestaurantID = r
         THEN <<Head(q)>> \o OfRestaurant(Tail(q), r)
         ELSE OfRestaurant(Tail(q), r)

\* a is b with some elements left out
RECURSIVE IsSubsequence(_, _)
IsSubsequence(a, b) ==
    IF a = <<>> THEN TRUE
    ELSE IF b = <<>> THEN FALSE
    ELSE IF Head(a) = Head(b) THEN IsSubsequence(Tail(a), Tail(b))
    ELSE IsSubsequence(a, Tail(b))

Elements(q) == {q[i] : i \in DOMAIN q}
NoDuplicates(q) == \A i, j \in DOMAIN q : q[i] = q[j] => i = j
\* this step is the hub's fan-out of the event at the head of the broadcast channel
FanOutStep == broadcast # <<>> /\ broadcast' = Tail(broadcast)
\* the events session s has been handed
Received(s) == Elements(send[s]) \cup Elements(written[s])

(***************************************************************************)
(* C5  Fan-out filtering.  A fan-out of an event of restaurant R enqueues  *)
(* it only onto sessions whose entitlement set holds R, every registered   *)
(* session entitled to R whose queue has room gets it, and a session with  *)
(* an empty entitlement set gets nothing; so no session ever holds or      *)
(* writes an event of a restaurant outside its entitlement set.            *)
(***************************************************************************)
FanOutFiltered ==
    /\ [](\A s \in Sessions : \A e \in Received(s) :
             e.Order.RestaurantID \in restaurantIDs[s])
    /\ [][FanOutStep =>
            \A s \in Sessions :
              LET event == Head(broadcast)
                  R == event.Order.RestaurantID
              IN  /\ send'[s] # send[s] =>
                       R \in restaurantIDs[s] /\ send'[s] = Append(send[s], event)
                  /\ (s \in clients /\ R \in restaurantIDs[s] /\ Len(send[s]) < SendCap)
                       => send'[s] = Append(send[s], event)
                  /\ restaurantIDs[s] = {} => send'[s] = send[s]]_vars

\* events of restaurants 1, 2 and 3 went out; a session entitled to {2, 3}
\* wrote those of 2 and 3 and nothing else, a registered session entitled to
\* nothing got nothing
FanOutFilteredWitness ==
    \E s, t \in Sessions :
        /\ restaurantIDs[s] = {2, 3}
        /\ {e.Order.RestaurantID : e \in Elements(written[s])} = {2, 3}
        /\ {e.Order.RestaurantID : e \in Elements(published)} = {1, 2, 3}
        /\ broadcast = <<>>
        /\ restaurantIDs[t] = {} /\ sessPc[t] = "running" /\ t \in clients
        /\ Received(t) = {}

(***************************************************************************)
(* C6  Backpressure isolation.  In a fan-out step an entitled registered   *)
(* session whose queue is full is removed from the membership set and its  *)
(* queue closed in that step, nothing being added to it; every other       *)
(* entitled registered session with room gets the event; the step leaves   *)
(* every handler's position and result alone, and the fan-out can always   *)
(* be taken when an event waits, whatever the state of the queues.         *)
(***************************************************************************)
BackpressureIsolated ==
    /\ [](broadcast # <<>> => ENABLED HubBroadcast)
    /\ [][FanOutStep =>
            /\ \A s \in clients :
                 Head(broadcast).Order.RestaurantID \in restaurantIDs[s] =>
                   IF Len(send[s]) >= SendCap
                   THEN /\ s \notin clients'
                        /\ sendClosed'[s]
                        /\ send'[s] = send[s]
                   ELSE /\ s \in clients'
                        /\ ~sendClosed'[s]
                        /\ send'[s] = Append(send[s], Head(broadcast))
            /\ \A s \in Sessions : Len(send'[s]) <= SendCap
            /\ pc' = pc /\ result' = result]_vars

\* two sessions with the same entitlement: the queue of one was full at the
\* last fan-out and the hub dropped it, the other got that event
BackpressureIsolatedWitness ==
    \E s, t \in Sessions :
        /\ s # t
        /\ restaurantIDs[s] = restaurantIDs[t]
        /\ s \in dropped /\ s \notin clients /\ sendClosed[s]
        /\ Len(send[s]) = SendCap
        /\ t \in clients
        /\ Len(published) = MaxEvents /\ broadcast = <<>>
        /\ published[MaxEvents] \in Received(t)
        /\ published[MaxEvents] \notin Received(s)
        /\ \A c \in Calls : pc[c] = "done" /\ result[c] = "created"

(***************************************************************************)
(* C7  Publishing never blocks.  A handler that stands before its call of  *)
(* publish can always complete it at once, also when the broadcast buffer  *)
(* is full.                                                                *)
(***************************************************************************)
PublishNeverWaits ==
    \A c \in Calls : pc[c] = "publish" => ENABLED Publish(c)

(***************************************************************************)
(* C8  Per-subscriber ordering.  For every session and every restaurant,   *)
(* the events of that restaurant the session has written are in the order  *)
(* in which they were published, and none is written twice.                *)
(***************************************************************************)
PerSubscriberOrder ==
    \A s \in Sessions :
        /\ NoDuplicates(written[s] \o send[s])
        /\ \A r \in Restaurants :
             IsSubsequence(OfRestaurant(written[s] \o send[s], r),
                           OfRestaurant(published, r))

\* a session entitled to a restaurant wrote two of its events, all events
\* having been published
PerSubscriberOrderWitness ==
    \E s \in Sessions, r \in Restaurants :
        /\ r \in restaurantIDs[s]
        /\ Len(OfRestaurant(written[s], r)) >= 2
        /\ Len(published) = MaxEvents

(***************************************************************************)
(* C9  unregister is idempotent.  The unregister case applied twice gives  *)
(* the hub state of applying it once; applied to a session that is not in  *)
(* the membership set it changes nothing, and the step in which the hub    *)
(* takes the unregister of such a session leaves the membership set, the   *)
(* queues and their closed flags alone and closes nothing twice.           *)
(***************************************************************************)
UnregisterIdempotent ==
    /\ [](\A s \in Sessions :
            /\ Unregistered(Unregistered(HubState, s), s) = Unregistered(HubState, s)
            /\ s \notin clients => Unregistered(HubState, s) = HubState)
    /\ [][\A s \in Sessions :
            (sessPc[s] = "unregister" /\ sessPc'[s] = "closed" /\ s \notin clients)
            => /\ clients' = clients
               /\ sendClosed' = sendClosed
               /\ send' = send
               /\ closePanics' = closePanics]_vars

\* the hub dropped a session on overflow and later took its unregister
UnregisterIdempotentWitness ==
    \E s \in Sessions :
        /\ s \in dropped
        /\ sessPc[s] = "closed"
        /\ sendClosed[s]
        /\ ~closePanics

(***************************************************************************)
(* C10  register, unregister and publish are safe.  No send on a closed    *)
(* queue and no second close ever happens; a registered session's queue is *)
(* open and the queue of a session that left the membership set is closed; *)
(* a queue is closed in exactly the step in which its session leaves the   *)
(* membership set; and the membership set changes only in a step of the    *)
(* hub loop, one case of its select at a time.                             *)
(***************************************************************************)
HubCases ==
    {<<"broadcast", 0>> : x \in {y \in {0} : FanOutStep}}
    \cup {<<"register", s>> : s \in {t \in Sessions :
                                 sessPc[t] = "register" /\ sessPc'[t] = "running"}}
    \cup {<<"unregister", s>> : s \in {t \in Sessions :
                                 sessPc[t] = "unregister" /\ sessPc'[t] = "closed"}}

HubSafe ==
    /\ [](/\ ~closePanics
          /\ \A s \in Sessions :
               /\ s \in clients => ~sendClosed[s] /\ sessPc[s] \in {"running", "unregister"}
               /\ (s \notin clients /\ sessPc[s] \in {"running", "unregister", "closed"})
                    => sendClosed[s]
               /\ sendClosed[s] => s \notin clients)
    /\ [][/\ \A s \in Sessions :
               /\ (sendClosed'[s] # sendClosed[s])
                    <=> (s \in clients /\ s \notin clients')
               /\ sendClosed[s] => sendClosed'[s]
          /\ clients' # clients => Cardinality(HubCases) = 1
          /\ Cardinality(HubCases) <= 1]_vars

\* while handlers published: one session was dropped on overflow and later
\* unregistered, another registered, received and unregistered
HubSafeWitness ==
    \E s, t \in Sessions :
        /\ s # t
        /\ s \in dropped /\ sessPc[s] = "closed"
        /\ t \notin dropped /\ sessPc[t] = "closed" /\ sendClosed[t]
        /\ written[t] # <<>>
        /\ Len(published) = MaxEvents

(***************************************************************************)
(* C11  Session teardown.  For every session: once the reader has ended,   *)
(* the writer eventually stops, the transport is closed and the session is *)
(* out of the membership set; and once the writer has stopped, the reader  *)
(* is eventually torn down, the transport closed and the session out of    *)
(* the membership set.                                                     *)
(***************************************************************************)
TornDown(s) ==
    /\ sessPc[s] = "closed"
    /\ writerPc[s] = "stopped"
    /\ connClosed[s]
    /\ s \notin clients

SessionTeardown ==
    \A s \in Sessions :
        /\ (sessPc[s] = "unregister") ~> TornDown(s)
        /\ (writerPc[s] = "stopped") ~> TornDown(s)

(***************************************************************************)
(* C12  Every menu item's quantity is at least 0 in every reachable state, *)
(* whatever the placements and the owner's edits do.                       *)
(***************************************************************************)
QuantityNeverNegative == \A m \in Items : menuItems[m].Quantity >= 0

(***************************************************************************)
(* C13  Total-amount correctness.  The stored total of a created order is  *)
(* the sum over its lines of the price read for the line during the        *)
(* placement times the line's normalised quantity, and no later step, an   *)
(* edit of a price included, changes the stored total of an order.         *)
(***************************************************************************)
\* the sum of prices[i] * lines[i].Quantity
RECURSIVE PlacedTotal(_, _)
PlacedTotal(prices, lines) ==
    IF prices = <<>> \/ lines = <<>> THEN 0
    ELSE Head(prices) * Head(lines).Quantity + PlacedTotal(Tail(prices), Tail(lines))

\* call c has created its order and stands before publish
Placed(c) == pc[c] = "publish" /\ request[c].kind \in {"public", "auth"}

TotalAmountCorrect ==
    /\ [](\A c \in Calls :
            Placed(c) =>
              /\ Len(unitPrices[c]) = Len(request[c].OrderItems)
              /\ Len(lineItems[c]) = Len(request[c].OrderItems)
              /\ \A i \in DOMAIN lineItems[c] :
                   lineItems[c][i].Quantity =
                     NormalizeQuantity(request[c].OrderItems[i].Quantity)
              /\ \E o \in orders :
                   /\ o.ID = createdOrder[c].ID
                   /\ o.TotalAmount = PlacedTotal(unitPrices[c], lineItems[c]))
    /\ [][\A o \in orders :
            \E n \in orders' : n.ID = o.ID /\ n.TotalAmount = o.TotalAmount]_vars

\* an order of two lines, one of them of quantity 2, was created, and the
\* price of one of its items has been changed since it was read
TotalAmountWitness ==
    \E c \in Calls :
        /\ Placed(c)
        /\ Len(lineItems[c]) = 2
        /\ \E i \in DOMAIN lineItems[c] : lineItems[c][i].Quantity = 2
        /\ \E i \in DOMAIN lineItems[c] :
             menuItems[lineItems[c][i].MenuItemID].Price # unitPrices[c][i]

(***************************************************************************)
(* C14  Table mismatch.  A request of either entry point whose table does  *)
(* not belong to the restaurant it names ends with the table error; the    *)
(* step that rejects it creates no order and no order line, sends no       *)
(* event and leaves every menu item alone, and the call never publishes.   *)
(***************************************************************************)
TableMismatch(c) ==
    /\ request[c].kind \in {"public", "auth"}
    /\ TableRestaurant[request[c].TableID] # request[c].RestaurantID

TableMismatchRejected ==
    /\ [](\A c \in Calls :
            TableMismatch(c) =>
              /\ pc[c] = "done"
              /\ result[c] = "table_not_found"
              /\ txItems[c] = EmptyTx
              /\ createdOrder[c] = NoOrder)
    /\ [][\A c \in Calls :
            (result[c] = "none" /\ result'[c] = "table_not_found") =>
              /\ menuItems' = menuItems
              /\ orders' = orders
              /\ orderItems' = orderItems
              /\ nextOrderID' = nextOrderID
              /\ broadcast' = broadcast
              /\ published' = published]_vars

\* a public and an authenticated request named a table of another restaurant
\* and carried a line for a menu item in stock: both were rejected, nothing
\* was stored or published
TableMismatchWitness ==
    \E c, d \in Calls :
        /\ request[c].kind = "public" /\ request[d].kind = "auth"
        /\ TableMismatch(c) /\ TableMismatch(d)
        /\ result[c] = "table_not_found" /\ result[d] = "table_not_found"
        /\ \A x \in {c, d} :
             /\ Len(request[x].OrderItems) = 1
             /\ menuItems[request[x].OrderItems[1].MenuItemID].Quantity > 0
             /\ menuItems[request[x].OrderItems[1].MenuItemID].RestaurantID = 1
        /\ orders = {} /\ orderItems = {} /\ published = <<>>
        /\ \A m \in Items : menuItems[m].Quantity = initialQuantity[m]

(***************************************************************************)
(* C15  updateStatus stores the caller's string verbatim.  Whatever the    *)
(* current status of the order, the step in which UpdateOrderStatus saves  *)
(* an order of the caller's restaurant leaves the order stored with        *)
(* exactly the status string of the request.                               *)
(***************************************************************************)
StatusStoredVerbatim ==
    [][\A c \in Calls :
         (pc[c] = "save" /\ pc'[c] = "reload") =>
           \E o \in orders' : o.ID = request[c].OrderID /\ o.Status = request[c].Status]_vars

(***************************************************************************)
(* C16  UpdateOrderStatus on a foreign order.  When the restaurant named   *)
(* in the request is not the caller's, or the order's table is not a table *)
(* of that restaurant, the call ends NotFound, the rejecting step leaves   *)
(* every stored row unchanged and sends no event, and the call never       *)
(* publishes.                                                              *)
(***************************************************************************)
ForeignOrder(c) ==
    /\ request[c].kind = "status"
    /\ \/ RestaurantOwner[request[c].RestaurantID] # request[c].username
       \/ \A o \in orders :
            o.ID = request[c].OrderID =>
              TableRestaurant[o.TableID] # request[c].RestaurantID

ForeignOrderNotFound ==
    /\ [](\A c \in Calls :
            ForeignOrder(c) =>
              /\ pc[c] = "done"
              /\ result[c] \in {"restaurant_not_found", "order_not_found"})
    /\ [][\A c \in Calls :
            (/\ request'[c].kind = "status"
             /\ result'[c] \in {"restaurant_not_found", "order_not_found"}
             /\ <<request'[c], pc'[c], result'[c]>> # <<request[c], pc[c], result[c]>>)
            => /\ orders' = orders
               /\ orderItems' = orderItems
               /\ menuItems' = menuItems
               /\ broadcast' = broadcast
               /\ published' = published]_vars

\* the owner of restaurants 2 and 3 named restaurant 2 and the order of a
\* table of restaurant 1: not found, the order keeps the status its owner
\* had given it
ForeignOrderWitness ==
    \E c \in Calls :
        /\ request[c].kind = "status"
        /\ request[c].username = "u2" /\ request[c].RestaurantID = 2
        /\ request[c].OrderID = 1
        /\ request[c].Status = "cancelled"
        /\ result[c] = "order_not_found"
        /\ \E o \in orders : o.ID = 1 /\ o.Status = "completed"
        /\ Len(published) = 2

(***************************************************************************)
(* C17  ProtectRoute.  The downstream handler runs if and only if the      *)
(* token of the request, the access_token cookie or, without a cookie, the *)
(* Authorization header, is signed with the access secret, not expired, of *)
(* an accepted type and carries the claims username and user_id; the       *)
(* handler then finds that username in the context.  Every other request,  *)
(* one without any token included, is answered 401 and never reaches the   *)
(* handler.                                                                *)
(***************************************************************************)
Carried(c) ==
    IF request[c].cookie.key # "none" THEN request[c].cookie
    ELSE request[c].authorization.rest

CarriesValidToken(c) ==
    /\ Carried(c).key = "access"
    /\ ~Carried(c).expired
    /\ Carried(c).type \in {"access", "websocket"}
    /\ Carried(c).claims = {"username", "user_id"}

ProtectRouteGuards ==
    \A c \in Calls :
        request[c].kind = "protected" =>
            /\ CarriesValidToken(c) <=> (pc[c] = "handler" \/ result[c] = "handled")
            /\ CarriesValidToken(c) => locals[c] = "u1"
            /\ ~CarriesValidToken(c) =>
                 /\ pc[c] = "done"
                 /\ result[c] = "unauthorized"
                 /\ locals[c] = NoUser

\* the handler ran for a request without cookie and with a Bearer header
ProtectRouteWitness ==
    \E c \in Calls :
        /\ request[c].kind = "protected"
        /\ request[c].cookie = NoToken
        /\ request[c].authorization.bearer
        /\ result[c] = "handled"
        /\ locals[c] = "u1"

(***************************************************************************)
(* C18  Every placement ends.  A CreatePublicOrder call whose transaction  *)
(* is open eventually commits or rolls back, under every interleaving of   *)
(* the concurrent calls, also when two calls take the row locks of the     *)
(* same two menu items in opposite orders: no two calls wait for each      *)
(* other's row lock forever.                                               *)
(***************************************************************************)
InTransaction(c) == request[c].kind = "public" /\ pc[c] \in {"line", "commit"}
Ended(c) == pc[c] \in {"publish", "done"} /\ txItems[c] = EmptyTx

PlacementEnds ==
    /\ \A c \in Calls : InTransaction(c) ~> Ended(c)
    /\ \A c, d \in Calls : (WaitsFor(c, d) /\ WaitsFor(d, c)) ~> (Ended(c) \/ Ended(d))

\* two calls asked for menu items 1 and 2 in opposite orders and waited for
\* each other's row lock: one was failed by the store and rolled back, the
\* other committed
PlacementEndsWitness ==
    \E c, d \in Calls :
        /\ c # d
        /\ request[c].kind = "public" /\ request[d].kind = "public"
        /\ Len(request[c].OrderItems) = 2 /\ Len(request[d].OrderItems) = 2
        /\ request[c].OrderItems[1].MenuItemID = 1
        /\ request[c].OrderItems[2].MenuItemID = 2
        /\ request[d].OrderItems[1].MenuItemID = 2
        /\ request[d].OrderItems[2].MenuItemID = 1
        /\ Ended(c) /\ Ended(d)
        /\ result[c] = "created"
        /\ result[d] = "item_not_found"

(***************************************************************************)
(* C19  Validation before mutation.  A placement that ends with a          *)
(* not-found or table-mismatch answer has written no menu item quantity:   *)
(* at the step that returns the error, the call's transaction holds no     *)
(* saved menu item row, so no call saves the decrement of one line and     *)
(* afterwards answers "Menu item not found" for a later line.              *)
(***************************************************************************)
ValidationErrors == {"restaurant_not_found", "table_not_found", "item_not_found"}

ValidationBeforeMutation ==
    [][\A c \in Calls :
         (result[c] = "none" /\ result'[c] \in ValidationErrors)
             => txItems[c] = EmptyTx]_vars

(***************************************************************************)
(* C20  An order is never partially persisted.  In the stored state, which *)
(* any other request reads, each order is whole or absent: there is no     *)
(* order line without its order row, and while the order row exists its    *)
(* lines stay the lines it was created with.  This is to hold during and   *)
(* after CreatePublicOrder, CreateOrder and DeleteOrder, also when a       *)
(* statement of DeleteOrder fails after the lines were deleted.            *)
(***************************************************************************)
OrderIDs == 1 .. (NumCalls + 1)
RowStored(S, id) == \E o \in S : o.ID = id
LinesStored(S, id) == {i \in S : i.OrderID = id}

OrderNeverPartial ==
    /\ \A id \in OrderIDs : ~RowStored(orders, id) => LinesStored(orderItems, id) = {}
    /\ [][\A id \in OrderIDs :
            /\ ~RowStored(orders', id) => LinesStored(orderItems', id) = {}
            /\ (RowStored(orders, id) /\ RowStored(orders', id))
                  => LinesStored(orderItems', id) = LinesStored(orderItems, id)]_vars

(***************************************************************************)
(* C21  order_created exactly once per committed placement.  Every order   *)
(* that is stored has either one order_created event handed to the hub or  *)
(* one call that has committed it and is about to hand the event over,     *)
(* never both and never two; an event is handed over only for an order     *)
(* that is stored, built from the stored order; and the calls that failed  *)
(* or were rolled back hand over nothing: the events are as many as the    *)
(* finished calls that succeeded.                                          *)
(***************************************************************************)
CreatedEvents == {i \in 1 .. Len(published) : published[i].Type = "order_created"}
EventsFor(id) == Cardinality({i \in CreatedEvents : published[i].Order.ID = id})
PendingFor(id) ==
    Cardinality({c \in Calls : pc[c] = "publish" /\ createdOrder[c].ID = id})

OrderCreatedOnce ==
    /\ \A o \in orders : EventsFor(o.ID) + PendingFor(o.ID) = 1
    /\ \A i \in CreatedEvents :
         /\ RowStored(orders, published[i].Order.ID)
         /\ published[i].Order =
              BuildOrderResponse(
                  [LoadedOrder(published[i].Order.ID) EXCEPT
                     !.OrderItems = LoadedItems(published[i].Order.ID)],
                  TableRestaurant[LoadedOrder(published[i].Order.ID).TableID])
    /\ \A c \in Calls : pc[c] = "publish" => RowStored(orders, createdOrder[c].ID)
    /\ Cardinality(CreatedEvents) =
         Cardinality({c \in Calls : pc[c] = "done" /\ result[c] = "created"})

\* one placement committed and its event is with the hub, the other was
\* rolled back after it had reserved stock, and there is the one event
OrderCreatedOnceWitness ==
    \E c, d \in Calls :
        /\ pc[c] = "done" /\ result[c] = "created"
        /\ pc[d] = "done" /\ result[d] \in {"insufficient", "item_not_found", "store_error"}
        /\ request[d].kind = "public" /\ Len(request[d].OrderItems) = 2
        /\ Len(published) = 1
        /\ published[1].Type = "order_created"

(***************************************************************************)
(* C22  The entitlement set of a session is computed once, before the      *)
(* session is registered, and never changes.  The step that ends the       *)
(* connection phase sets it to the restaurants some principal owns at that *)
(* moment, before the session is among the hub's clients; no later step    *)
(* changes it, whatever restaurants the principal creates or deletes; and  *)
(* what the session is sent is decided by that set alone.                  *)
(***************************************************************************)
EntitlementFixed ==
    /\ \A s \in Sessions :
         /\ s \in clients => sessPc[s] # "new"
         /\ \A i \in 1 .. Len(written[s]) :
              written[s][i].Order.RestaurantID \in restaurantIDs[s]
         /\ \A i \in 1 .. Len(send[s]) :
              send[s][i].Order.RestaurantID \in restaurantIDs[s]
    /\ [][\A s \in Sessions :
            /\ sessPc[s] # "new" => restaurantIDs'[s] = restaurantIDs[s]
            /\ (sessPc[s] = "new" /\ sessPc'[s] # "new") =>
                  /\ s \notin clients'
                  /\ \E username \in Users :
                       restaurantIDs'[s] = FetchRestaurantIDs(username)]_vars

\* a session of u1 connected when u1 owned restaurant 1 alone; u1 then
\* created restaurant 4 and a table of it, an order of that table was
\* published and fanned out, and the session, still running with its first
\* set, was not sent the event, while a session that connected after the
\* restaurant was created has it
EntitlementFixedWitness ==
    \E s, t \in Sessions :
        /\ sessPc[s] = "running" /\ s \in clients
        /\ restaurantIDs[s] = {1}
        /\ FetchRestaurantIDs("u1") = {1, 4}
        /\ broadcast = <<>>
        /\ \E i \in 1 .. Len(published) : published[i].Order.RestaurantID = 4
        /\ sessPc[t] = "running"
        /\ restaurantIDs[t] = {1, 4}
        /\ \E i \in 1 .. Len(written[t]) : written[t][i].Order.RestaurantID = 4

(***************************************************************************)
(* C23  Quantity normalisation.  In both entry points a requested line     *)
(* with quantity <= 0 counts as quantity 1: the line the handler builds    *)
(* and the order line that is stored have quantity 1, the total grows by   *)
(* one unit price, and on the public path the open transaction holds the   *)
(* item with one unit less per such line; when the item's stock is 0 such  *)
(* a line ends the call with "insufficient".                               *)
(***************************************************************************)
\* the units a requested quantity stands for
Units(q) == IF q <= 0 THEN 1 ELSE q

\* the units the first n lines of call c ask of menu item m
RECURSIVE UnitsOf(_, _, _)
UnitsOf(c, m, n) ==
    IF n = 0 THEN 0
    ELSE UnitsOf(c, m, n - 1) +
         (IF request[c].OrderItems[n].MenuItemID = m
          THEN Units(request[c].OrderItems[n].Quantity) ELSE 0)

\* the sum of the unit prices read for the first n lines of call c, each
\* times the units of its line
RECURSIVE UnitsTotal(_, _)
UnitsTotal(c, n) ==
    IF n = 0 THEN 0
    ELSE UnitsTotal(c, n - 1) + unitPrices[c][n] * Units(request[c].OrderItems[n].Quantity)

Placing(c) ==
    request[c].kind \in {"public", "auth"} /\ pc[c] \in {"line", "commit", "publish"}

QuantityNormalized ==
    /\ \A q \in (0 - MaxOrderQty) .. 0 : NormalizeQuantity(q) = 1
    /\ [](\A c \in Calls :
            Placing(c) =>
              /\ \A i \in DOMAIN lineItems[c] :
                   lineItems[c][i].Quantity = Units(request[c].OrderItems[i].Quantity)
              /\ Len(unitPrices[c]) = Len(lineItems[c])
              /\ totalAmount[c] = UnitsTotal(c, Len(lineItems[c]))
              /\ \A m \in DOMAIN txItems[c] :
                   txItems[c][m].Quantity =
                     menuItems[m].Quantity - UnitsOf(c, m, Len(lineItems[c]))
              /\ pc[c] = "publish" =>
                   \A i \in DOMAIN lineItems[c] :
                       \E row \in orderItems :
                           /\ row.OrderID = createdOrder[c].ID /\ row.Pos = i
                           /\ row.Quantity = Units(request[c].OrderItems[i].Quantity))
    /\ [][\A c \in Calls :
            (/\ request[c].kind = "public" /\ pc[c] = "line"
             /\ idx[c] <= Len(request[c].OrderItems)
             /\ CurrentLine(c).Quantity <= 0
             /\ MenuItemFound(CurrentLine(c).MenuItemID, request[c].RestaurantID)
             /\ TxRow(c, CurrentLine(c).MenuItemID).Quantity = 0
             /\ <<pc'[c], idx'[c], result'[c]>> # <<pc[c], idx[c], result[c]>>)
                => result'[c] \in {"insufficient", "item_not_found"}]_vars

\* two public orders asked for the same menu item in a line of quantity 0
\* when one unit was in stock: the first was created with a stored line of
\* quantity 1 and took the unit, the second was answered "insufficient"
QuantityNormalizedWitness ==
    \E c, d \in Calls, m \in Items :
        /\ request[c].kind = "public" /\ request[d].kind = "public"
        /\ request[c].OrderItems = <<[MenuItemID |-> m, Quantity |-> 0]>>
        /\ request[d].OrderItems = <<[MenuItemID |-> m, Quantity |-> 0]>>
        /\ initialQuantity[m] = 1
        /\ pc[c] = "publish" /\ result[c] = "created"
        /\ menuItems[m].Quantity = 0
        /\ \E row \in orderItems : row.OrderID = createdOrder[c].ID /\ row.Quantity = 1
        /\ result[d] = "insufficient"

(***************************************************************************)
(* C24  Each rate-limited route has its own allowance per client.  A       *)
(* request to register, login or refresh is rejected only when the client  *)
(* has already been allowed the route's limit of requests to that same     *)
(* route within the last minute; requests to another route do not count.   *)
(***************************************************************************)
\* the requests of client key to route that were allowed among the first n
\* decisions, not longer than a window before time t
AllowedBefore(n, key, route, t) ==
    Cardinality({i \in 1 .. n :
                    /\ checks[i].key = key /\ checks[i].route = route
                    /\ checks[i].allowed
                    /\ t - checks[i].at <= RouteWindow})

RouteAllowanceOwn ==
    \A j \in 1 .. Len(checks) :
        (checks[j].route \in RateLimitedRoutes /\ ~checks[j].allowed) =>
            AllowedBefore(j - 1, checks[j].key, checks[j].route, checks[j].at)
                >= RouteLimit[checks[j].route]

(***************************************************************************)
(* C25  CheckRateLimit never allows more than maxRequests requests of one  *)
(* key within a time interval of length window: of the decisions of one    *)
(* key, any allowed ones that lie no further apart in time than the window *)
(* are at most maxRequests.                                                *)
(***************************************************************************)
AllowedBetween(i, j) ==
    Cardinality({k \in i .. j : checks[k].key = checks[i].key /\ checks[k].allowed})

LoginStep(username) ==
    /\ Len(checks') = Len(checks) + 1
    /\ checks'[Len(checks')].key = username
    /\ checks'[Len(checks')].route \in {"login", "login-ok"}

BruteForceLockout ==
    /\ [](\A i, j \in 1 .. Len(checks) :
            (/\ i <= j
             /\ checks[i].key = checks[j].key
             /\ checks[i].allowed /\ checks[j].allowed
             /\ \A k \in i .. j : checks[k].route = "login"
             /\ checks[j].at - checks[i].at <= AttemptWindow)
                => AllowedBetween(i, j) <= MaxAttempts)
    /\ [][\A username \in DOMAIN attempts :
            (LoginStep(username) /\ attempts[username].LockedOut) =>
                /\ checks'[Len(checks')].allowed
                     <=> (now - attempts[username].LockTime > LockoutPeriod)
                /\ ~checks'[Len(checks')].allowed => attempts' = attempts]_vars
    /\ [][\A username \in DOMAIN attempts :
            (/\ LoginStep(username)
             /\ ~attempts[username].LockedOut
             /\ attempts[username].Count >= MaxAttempts
             /\ now - attempts[username].LastTime <= AttemptWindow) =>
                /\ ~checks'[Len(checks')].allowed
                /\ attempts'[username].LockedOut
                /\ attempts'[username].LockTime = now]_vars

(***************************************************************************)
(* C27  The last status a subscriber was sent is the stored one.  When no  *)
(* UpdateOrderStatus call is under way and every event has been fanned out *)
(* and written, the last order_updated event a session has received for an *)
(* order carries the status that is stored for that order.                 *)
(***************************************************************************)
\* the places in what session s has received of the order_updated events of
\* order id
UpdatesReceived(s, id) ==
    {i \in 1 .. Len(written[s]) :
        written[s][i].Type = "order_updated" /\ written[s][i].Order.ID = id}

\* nothing is on its way to session s
Delivered(s) ==
    /\ AllFinished
    /\ broadcast = <<>>
    /\ send[s] = <<>>
    /\ s \in clients /\ s \notin dropped
    /\ writerPc[s] = "running"

LastStatusIsStored ==
    \A s \in Sessions : \A o \in orders :
        (Delivered(s) /\ UpdatesReceived(s, o.ID) # {}) =>
            LET last == CHOOSE i \in UpdatesReceived(s, o.ID) :
                            \A k \in UpdatesReceived(s, o.ID) : k <= i
            IN  written[s][last].Order.Status = MapInternalStatusToFrontend(o.Status)

(***************************************************************************)
(* C28  Lines of one public request that name the same menu item reserve   *)
(* from the same row.  The order commits only when the sum of the          *)
(* normalized quantities of those lines is at most the available quantity, *)
(* and the stored quantity then falls by exactly that sum; it is refused   *)
(* for insufficient quantity only when the sum of the lines read so far    *)
(* exceeds the available quantity; a request that fails leaves every       *)
(* stored quantity unchanged.                                              *)
(***************************************************************************)
\* the menu items that several of the first n lines of call c name
Repeated(c, n) ==
    {m \in Items :
        \E i, j \in 1 .. n :
            /\ i # j
            /\ request[c].OrderItems[i].MenuItemID = m
            /\ request[c].OrderItems[j].MenuItemID = m}

\* the transaction of the public request of call c commits in this step
PublicCommits(c) ==
    request[c].kind = "public" /\ pc[c] = "commit" /\ pc'[c] = "publish"

\* the public request of call c fails inside its transaction in this step
PublicFails(c) ==
    request[c].kind = "public" /\ pc[c] \in {"line", "commit"} /\ pc'[c] = "done"

RepeatedLinesAccumulate ==
    [][\A c \in Calls :
        /\ PublicCommits(c) =>
             \A m \in Repeated(c, Len(request[c].OrderItems)) :
                LET sum == UnitsOf(c, m, Len(request[c].OrderItems))
                IN  /\ sum <= menuItems[m].Quantity
                    /\ menuItems'[m].Quantity = menuItems[m].Quantity - sum
        /\ PublicFails(c) => menuItems' = menuItems
        /\ (PublicFails(c) /\ result'[c] = "insufficient") =>
             UnitsOf(c, CurrentLine(c).MenuItemID, idx[c]) >
                menuItems[CurrentLine(c).MenuItemID].Quantity]_vars

RepeatedLinesAccumulateWitness ==
    \E c \in Calls : \E d \in Calls \ {c} :
        /\ request[c].kind = "public" /\ request[d].kind = "public"
        /\ request[c].OrderItems = <<[MenuItemID |-> 1, Quantity |-> 1],
                                     [MenuItemID |-> 1, Quantity |-> 0]>>
        /\ pc[c] = "publish" /\ result[c] = "created"
        /\ initialQuantity[1] = 2
        /\ menuItems[1].Quantity = 0
        /\ Len(request[d].OrderItems) = 2
        /\ request[d].OrderItems[1].MenuItemID = 1
        /\ request[d].OrderItems[2].MenuItemID = 1
        /\ result[d] = "insufficient"

(***************************************************************************)
(* C29  Reserved stock is never released after commit.  Every step of      *)
(* UpdateOrderStatus, whatever the status, and every step of DeleteOrder   *)
(* leaves the quantity of every menu item unchanged, so the units a placed *)
(* order has reserved stay reserved when it is cancelled or deleted.       *)
(***************************************************************************)
\* call c takes a step of UpdateOrderStatus or of DeleteOrder
AfterPlacementStep(c) ==
    /\ request'[c].kind \in {"status", "delete"}
    /\ <<pc[c], result[c], request[c]>> # <<pc'[c], result'[c], request'[c]>>

\* the units the first order reserved of menu item m when it was placed
ReservedByFirstOrder(m) ==
    IF FirstOrder.OrderItems[1].MenuItemID = m THEN FirstOrder.OrderItems[1].Quantity ELSE 0

ReservationKept ==
    /\ [](\A m \in Items :
            menuItems[m].Quantity = initialQuantity[m] - ReservedByFirstOrder(m))
    /\ [][\A c \in Calls :
            AfterPlacementStep(c) =>
                \A m \in Items : menuItems'[m].Quantity = menuItems[m].Quantity]_vars

\* the order has been cancelled by one call and deleted by another, and the
\* unit it had reserved is still missing from the stock
ReservationKeptWitness ==
    \E c \in Calls : \E d \in Calls \ {c} :
        /\ ReservedByFirstOrder(1) = 1
        /\ request[c].kind = "status" /\ request[c].Status = "cancelled"
        /\ pc[c] = "done" /\ result[c] = "updated"
        /\ request[d].kind = "delete"
        /\ pc[d] = "done" /\ result[d] = "deleted"
        /\ orders = {}
        /\ menuItems[1].Quantity = initialQuantity[1] - 1

(***************************************************************************)
(* C30  Eventual delivery.  Under fair scheduling, an event the hub is     *)
(* about to process, for a restaurant a registered session is entitled to  *)
(* and with room in that session's queue, is eventually written to the     *)
(* session's transport unless the transport stops accepting writes; and    *)
(* the hub loop never blocks: every event in the broadcast channel, every  *)
(* pending register and every pending unregister is eventually processed.  *)
(***************************************************************************)
\* the order ids the events of the hub specification carry
EventIDs == 1 .. MaxDeliveryEvents

\* the event of order id is in the broadcast channel
InBroadcast(id) == \E i \in DOMAIN broadcast : broadcast[i].Order.ID = id

\* the hub's next event is that of order id, session s is registered and
\* entitled to its restaurant, and the queue of s has room
AboutToReach(s, id) ==
    /\ broadcast # <<>>
    /\ Head(broadcast).Order.ID = id
    /\ s \in Targets(Head(broadcast))
    /\ HasRoom(s)

\* the event of order id has been written to the transport of session s
WrittenTo(s, id) == \E i \in DOMAIN written[s] : written[s][i].Order.ID = id

\* the transport of session s has refused a write or has been closed
TransportStopped(s) == writerPc[s] = "stopped" \/ connClosed[s]

EventualDelivery ==
    /\ \A s \in Listeners : \A id \in EventIDs :
         AboutToReach(s, id) ~> (WrittenTo(s, id) \/ TransportStopped(s))
    /\ \A id \in EventIDs : InBroadcast(id) ~> ~InBroadcast(id)
    /\ \A s \in Listeners : (sessPc[s] = "register") ~> (sessPc[s] # "register")
    /\ \A s \in Listeners : (sessPc[s] = "unregister") ~> (sessPc[s] = "closed")

\* a session has had two events written while its transport goes on
\* accepting writes, and the hub has emptied its channel
EventualDeliveryWitness ==
    /\ broadcast = <<>>
    /\ \E s \in Sessions :
         /\ \E id \in EventIDs : WrittenTo(s, id) /\ WrittenTo(s, id + 1)
         /\ ~TransportStopped(s)
         /\ send[s] = <<>>

====
